---------------------------- MODULE Spec2Model ----------------------------
(***************************************************************************)
(* A model of calico/felix/futils.py: the per-endpoint iptables chains and *)
(* ipsets that Felix compiles (set_ep_specific_rules), synchronizes        *)
(* (set_acls / update_ipsets), tears down (del_rules) and discovers        *)
(* (list_eps_with_rules).                                                  *)
(*                                                                         *)
(* The kernel state is two variables: `tables` (the iptables tables, each  *)
(* a function from the names of its chains to their rules) and `ipsets`    *)
(* (the names of the existing sets, each with its type, family and         *)
(* members).  A call of one of the functions is a frame in `call`; every   *)
(* backend command the call issues is one step, so that a call can be      *)
(* interrupted between any two of them.  `last` remembers how the previous *)
(* call ended and `crashes` counts the interrupted calls; both are history *)
(* only and no step of the code reads them.  `managed` is the set of       *)
(* (endpoint id, family) pairs the endpoint manager makes its calls for.   *)
(***************************************************************************)
EXTENDS Integers, Sequences, FiniteSets, TLC

VARIABLES tables, ipsets, call, last, crashes, managed

vars == <<tables, ipsets, call, last, crashes, managed>>

-----------------------------------------------------------------------------
(* Constants of futils.py                                                  *)

RULE_POSN_LAST == -1

CHAIN_PREROUTING == "felix-PREROUTING"
CHAIN_INPUT == "felix-INPUT"
CHAIN_FORWARD == "felix-FORWARD"
CHAIN_TO_PREFIX == "felix-to-"
CHAIN_FROM_PREFIX == "felix-from-"

IPSET_TO_ADDR_PREFIX == "felix-to-addr-"
IPSET_TO_PORT_PREFIX == "felix-to-port-"
IPSET_FROM_ADDR_PREFIX == "felix-from-addr-"
IPSET_FROM_PORT_PREFIX == "felix-from-port-"
IPSET6_TO_ADDR_PREFIX == "felix-6-to-addr-"
IPSET6_TO_PORT_PREFIX == "felix-6-to-port-"
IPSET6_FROM_ADDR_PREFIX == "felix-6-from-addr-"
IPSET6_FROM_PORT_PREFIX == "felix-6-from-port-"
IPSET_TMP_PORT == "felix-tmp-port"
IPSET_TMP_ADDR == "felix-tmp-addr"
IPSET6_TMP_PORT == "felix-6-tmp-port"
IPSET6_TMP_ADDR == "felix-6-tmp-addr"

IPV4 == "IPv4"
IPV6 == "IPv6"

(* iptc.Table.FILTER and iptc.Table.NAT *)
FILTER == "filter"
NAT == "nat"

-----------------------------------------------------------------------------
(* Bounds of the model and the values the calls are made with              *)

\* How many addresses an endpoint can be given (per family).
MaxIps == 2

\* The same where calls are interrupted.
MaxCrashIps == 1

\* How many ACL rules one set_acls call is given, inbound and outbound together.
MaxAclRules == 2

\* How many calls may be interrupted in one behaviour.
MaxCrashes == 2

\* How many rules felix-INPUT and felix-FORWARD hold together when a
\* teardown is started from any state of the two.
MaxDispatch == 3

\* How many local addresses an endpoint has when two callers compile it at
\* once.
MaxConcIps == 1

\* How many rules the two lists of a synchronization hold together when two
\* endpoints are synchronized at once.
MaxConcRules == 1

Types == {IPV4, IPV6}

Endpoints == {"e1"}

IfaceOf(id) == "tap" \o id

AddrList(type) ==
    IF type = IPV4 THEN <<"10.0.0.5", "10.0.0.6", "10.0.0.7", "10.0.0.8">>
    ELSE <<"fd00::5", "fd00::6", "fd00::7", "fd00::8">>

Addrs(type, n) == {AddrList(type)[i] : i \in 1..n}

\* The ACL rules the lists are made of: with a port, with a protocol only,
\* with neither, without cidr, with a port and no protocol.
AclRules ==
    {[cidr |-> <<"10.0.0.0/24">>, protocol |-> <<"tcp">>, port |-> <<80>>],
     [cidr |-> <<"10.0.1.0/24">>, protocol |-> <<"udp">>, port |-> <<>>],
     [cidr |-> <<"10.0.2.0/24">>, protocol |-> <<>>, port |-> <<>>],
     [cidr |-> <<>>, protocol |-> <<"tcp">>, port |-> <<80>>],
     [cidr |-> <<"10.0.0.0/24">>, protocol |-> <<>>, port |-> <<80>>]}

\* The rule lists of up to n rules.
AclLists(n) == UNION {[1..m -> AclRules] : m \in 0..n}

Macs == {"aa:bb:cc:dd:ee:ff", "aa:bb:cc:dd:ee:00"}

Range(s) == {s[i] : i \in 1..Len(s)}

\* The orders in which `for ip in localips` can visit the set S.
Orders(S) ==
    {s \in UNION {[1..n -> S] : n \in {Cardinality(S)}} : Range(s) = S}

LocalIpOrders(type, n) == UNION {Orders(S) : S \in SUBSET Addrs(type, n)}

-----------------------------------------------------------------------------
(* Strings                                                                 *)

\* str.startswith(prefix)
StartsWith(str, prefix) ==
    /\ Len(prefix) <= Len(str)
    /\ SubSeq(str, 1, Len(prefix)) = prefix

\* pat in str, as grep finds a pattern anywhere in a line
Contains(str, pat) ==
    \E i \in 1..(Len(str) - Len(pat) + 1) : SubSeq(str, i, i + Len(pat) - 1) = pat

-----------------------------------------------------------------------------
(* The kernel state as one value, and the names derived from an id         *)

World == [tables |-> tables, ipsets |-> ipsets]

TableKey(type, name) == <<type, name>>

BuiltinChains(name) ==
    IF name = FILTER THEN {"INPUT", "FORWARD", "OUTPUT"}
    ELSE {"PREROUTING", "INPUT", "OUTPUT", "POSTROUTING"}

EmptyTables ==
    [tk \in {TableKey(IPV4, FILTER), TableKey(IPV6, FILTER), TableKey(IPV4, NAT)} |->
        [c \in BuiltinChains(tk[2]) |-> <<>>]]

EmptyWorld == [tables |-> EmptyTables, ipsets |-> <<>>]

to_chain_name(id) == CHAIN_TO_PREFIX \o id
from_chain_name(id) == CHAIN_FROM_PREFIX \o id

to_ipset_port(type, id) ==
    IF type = IPV4 THEN IPSET_TO_PORT_PREFIX \o id ELSE IPSET6_TO_PORT_PREFIX \o id
to_ipset_addr(type, id) ==
    IF type = IPV4 THEN IPSET_TO_ADDR_PREFIX \o id ELSE IPSET6_TO_ADDR_PREFIX \o id
from_ipset_port(type, id) ==
    IF type = IPV4 THEN IPSET_FROM_PORT_PREFIX \o id ELSE IPSET6_FROM_PORT_PREFIX \o id
from_ipset_addr(type, id) ==
    IF type = IPV4 THEN IPSET_FROM_ADDR_PREFIX \o id ELSE IPSET6_FROM_ADDR_PREFIX \o id
tmp_ipset_port(type) == IF type = IPV4 THEN IPSET_TMP_PORT ELSE IPSET6_TMP_PORT
tmp_ipset_addr(type) == IF type = IPV4 THEN IPSET_TMP_ADDR ELSE IPSET6_TMP_ADDR
family(type) == IF type = IPV4 THEN "inet" ELSE "inet6"

-----------------------------------------------------------------------------
(* Rules.  A rule is what python-iptables compares when it tests           *)
(* `rule in chain.rules`: the target, the protocol, the addresses, the     *)
(* interfaces and the matches, and not the position in the chain.          *)

Match(name, a, b) == [name |-> name, a |-> a, b |-> b]

\* get_rule(type): a new empty rule, iptc.Rule() or iptc.Rule6()
get_rule(type) ==
    [family |-> type, target |-> "", protocol |-> "", src |-> "",
     out_interface |-> "", matches |-> <<>>]

\* rule.create_target(name)
create_target(rule, name) == [rule EXCEPT !.target = name]

\* rule.add_match(match)
add_match(rule, match) == [rule EXCEPT !.matches = Append(@, match)]

\* for icmp in [...]: RETURN ipv6-icmp ipv6-icmptype <icmp>
Icmp6TypeRule(icmp) ==
    add_match([create_target(get_rule(IPV6), "RETURN") EXCEPT !.protocol = "icmpv6"],
              Match("icmp6", icmp, ""))

ICMP6_TYPES == <<"130", "131", "132", "134", "135", "136">>

\* match.ctstate = [...] with the given target
ConntrackRule(type, target, ctstate) ==
    add_match(create_target(get_rule(type), target), Match("conntrack", ctstate, ""))

\* match.match_set = [ipset, direction]
SetRule(type, target, ipset, direction) ==
    add_match(create_target(get_rule(type), target), Match("set", ipset, direction))

\* "DROP unconditionally"
DropRule(type) == create_target(get_rule(type), "DROP")

\* In ipv6 only, allows all ICMP traffic from this endpoint to anywhere.
Icmp6AllRule == [create_target(get_rule(IPV6), "RETURN") EXCEPT !.protocol = "icmpv6"]

\* Drop UDP that would allow this server to act as a DHCP server.
DhcpRule ==
    add_match([create_target(get_rule(IPV4), "DROP") EXCEPT !.protocol = "udp"],
              Match("udp", "67", "68"))

\* RETURN, rule.src = ip, match mac_source = mac
MacRule(type, ip, mac) ==
    add_match([create_target(get_rule(type), "RETURN") EXCEPT !.src = ip],
              Match("mac", mac, ""))

\* target = chain, physdev_in = iface, physdev_is_bridged
PhysdevInRule(type, chain, iface) ==
    add_match(create_target(get_rule(type), chain), Match("physdev", "in", iface))

\* target = chain, physdev_out = iface, physdev_is_bridged
PhysdevOutRule(type, chain, iface) ==
    add_match(create_target(get_rule(type), chain), Match("physdev", "out", iface))

\* target = chain, rule.out_interface = iface
OutInterfaceRule(type, chain, iface) ==
    [create_target(get_rule(type), chain) EXCEPT !.out_interface = iface]

\* The rules set_ep_specific_rules puts into the "to" chain, in its order.
ToRules(type, id) ==
    (IF type = IPV6 THEN [i \in 1..Len(ICMP6_TYPES) |-> Icmp6TypeRule(ICMP6_TYPES[i])]
     ELSE <<>>)
    \o <<ConntrackRule(type, "DROP", "INVALID"),
         ConntrackRule(type, "RETURN", "RELATED,ESTABLISHED"),
         SetRule(type, "RETURN", to_ipset_port(type, id), "src"),
         SetRule(type, "RETURN", to_ipset_addr(type, id), "src"),
         DropRule(type)>>

\* The same rules with the from-addr rule before the from-port rule.
FromRulesAddrFirst(type, id) ==
    (IF type = IPV6 THEN <<Icmp6AllRule>> ELSE <<>>)
    \o <<ConntrackRule(type, "DROP", "INVALID"),
         ConntrackRule(type, "RETURN", "RELATED,ESTABLISHED")>>
    \o (IF type = IPV4 THEN <<DhcpRule>> ELSE <<>>)
    \o <<SetRule(type, "DROP", from_ipset_addr(type, id), "dst"),
         SetRule(type, "DROP", from_ipset_port(type, id), "dst")>>

\* The same rules with the RELATED,ESTABLISHED rule before the INVALID rule.
FromRulesEstablishedFirst(type, id) ==
    (IF type = IPV6 THEN <<Icmp6AllRule>> ELSE <<>>)
    \o <<ConntrackRule(type, "RETURN", "RELATED,ESTABLISHED"),
         ConntrackRule(type, "DROP", "INVALID")>>
    \o (IF type = IPV4 THEN <<DhcpRule>> ELSE <<>>)
    \o <<SetRule(type, "DROP", from_ipset_port(type, id), "dst"),
         SetRule(type, "DROP", from_ipset_addr(type, id), "dst")>>

\* The rules it puts into the "from" chain before the MAC rules, in its order.
FromRules(type, id) ==
    (IF type = IPV6 THEN <<Icmp6AllRule>> ELSE <<>>)
    \o <<ConntrackRule(type, "DROP", "INVALID"),
         ConntrackRule(type, "RETURN", "RELATED,ESTABLISHED")>>
    \o (IF type = IPV4 THEN <<DhcpRule>> ELSE <<>>)
    \o <<SetRule(type, "DROP", from_ipset_port(type, id), "dst"),
         SetRule(type, "DROP", from_ipset_addr(type, id), "dst")>>

-----------------------------------------------------------------------------
(* Idempotent primitives                                                   *)

\* chain.insert_rule(rule, position) of python-iptables
InsertAt(rules, position, rule) ==
    SubSeq(rules, 1, position) \o <<rule>> \o SubSeq(rules, position + 1, Len(rules))

\* chain.delete_rule(rule): the rule at position i (1-based here) goes
DeleteAt(rules, i) == SubSeq(rules, 1, i - 1) \o SubSeq(rules, i + 1, Len(rules))

\* The position insert_rule hands to the backend.
InsertPosition(rules, position) ==
    IF position = RULE_POSN_LAST THEN Len(rules) ELSE position

\* insert_rule without the test `rule not in chain.rules`
insert_rule_always(rule, rules, position) ==
    InsertAt(rules, InsertPosition(rules, position), rule)

\* insert_rule(rule, chain, position): the chain's rules afterwards
insert_rule(rule, rules, position) ==
    IF rule \in Range(rules) THEN rules
    ELSE InsertAt(rules, InsertPosition(rules, position), rule)

\* The backend refuses an insert past the end of the chain.
InsertFails(rule, rules, position) ==
    /\ rule \notin Range(rules)
    /\ InsertPosition(rules, position) > Len(rules)

\* table.is_chain(name)
is_chain(w, tk, name) == name \in DOMAIN w.tables[tk]

\* create_chain(table, name): the world afterwards
create_chain(w, tk, name) ==
    IF is_chain(w, tk, name) THEN w
    ELSE [w EXCEPT !.tables[tk] = @ @@ (name :> <<>>)]

\* chain.rules of an existing chain
ChainRules(w, tk, name) == w.tables[tk][name]

SetChain(w, tk, name, rules) == [w EXCEPT !.tables[tk][name] = rules]

\* create_ipset without its test of `ipset list`: the set is made anew,
\* empty, whether it exists or not.
create_ipset_anew(w, name, typename, fam) ==
    [w EXCEPT !.ipsets =
        [n \in DOMAIN @ \cup {name} |->
            IF n = name THEN [typename |-> typename, family |-> fam, members |-> {}]
            ELSE @[n]]]

\* create_ipset(name, typename, family): the world afterwards
create_ipset(w, name, typename, fam) ==
    IF name \in DOMAIN w.ipsets THEN w
    ELSE [w EXCEPT !.ipsets =
             @ @@ (name :> [typename |-> typename, family |-> fam, members |-> {}])]

-----------------------------------------------------------------------------
(* What `iptables -L <chain>` prints, and the grep over it                 *)

MatchText(m) ==
    CASE m.name = "physdev" ->
           " PHYSDEV match --physdev-" \o m.a \o " " \o m.b \o " --physdev-is-bridged"
      [] m.name = "conntrack" -> " ctstate " \o m.a
      [] m.name = "set" -> " match-set " \o m.a \o " " \o m.b
      [] m.name = "mac" -> " MAC " \o m.a
      [] m.name = "udp" -> " udp spt:" \o m.a \o " dpt:" \o m.b
      [] m.name = "icmp6" -> " ipv6-icmptype " \o m.a
      [] OTHER -> ""

\* One rule's line: target, protocol, options, source, destination, matches.
\* Without -v the interfaces of a rule are not printed.
RuleLine(r) ==
    r.target \o "  " \o (IF r.protocol = "" THEN "all" ELSE r.protocol) \o "  --  "
    \o (IF r.src = "" THEN "anywhere" ELSE r.src) \o "  anywhere"
    \o (IF Len(r.matches) = 0 THEN "" ELSE MatchText(r.matches[1]))

\* The output of `iptables -L chain` (`ip6tables` for IPv6): nothing on
\* standard output when the chain does not exist.
Listing(w, type, chain) ==
    LET tk == TableKey(type, FILTER) IN
    IF ~is_chain(w, tk, chain) THEN <<>>
    ELSE <<"Chain " \o chain \o (IF chain \in BuiltinChains(FILTER) THEN " (policy ACCEPT)"
                                  ELSE " (1 references)"),
           "target     prot opt source               destination">>
         \o [i \in 1..Len(ChainRules(w, tk, chain)) |-> RuleLine(ChainRules(w, tk, chain)[i])]

\* subprocess.call("iptables -L %s | grep %s"): grep's exit status
GrepStatus(lines, pat) ==
    IF \E i \in 1..Len(lines) : Contains(lines[i], pat) THEN 0 ELSE 1

-----------------------------------------------------------------------------
(* Calls.  A frame holds the arguments and the local variables of one call *)
(* and where it stands (pc); `before`, `prev` and `tag` are history: the   *)
(* kernel state the call started from, how the previous call ended, and    *)
(* what the call is known to follow; `passes` counts the passes the loop   *)
(* the call is in, or has last left, has made over its chain.  A call      *)
(* with `split` set runs insert_rule as its two backend commands, the read *)
(* of chain.rules and the insert; `rd` holds what the read found (whether  *)
(* the rule is in the chain, and the position) until the insert is made.   *)

NoCall ==
    [op |-> "none", status |-> "", id |-> "", iface |-> "", type |-> "",
     localips |-> <<>>, mac |-> "", tag |-> ""]

IdleFrame ==
    [op |-> "idle", pc |-> "idle", id |-> "", iface |-> "", type |-> "",
     localips |-> <<>>, mac |-> "", inbound |-> <<>>, outbound |-> <<>>,
     index |-> 0, k |-> 0, dir |-> 0, rules_check |-> 0, result |-> {},
     passes |-> 0, split |-> FALSE, rd |-> <<>>,
     before |-> EmptyWorld, prev |-> NoCall, tag |-> ""]

\* How a call that ended is remembered.
Summary(f, status) ==
    [op |-> f.op, status |-> status, id |-> f.id, iface |-> f.iface, type |-> f.type,
     localips |-> f.localips, mac |-> f.mac, tag |-> f.tag]

\* The result of one step: the kernel state and the frame after it.
R(w, f) == [w |-> w, f |-> f]

\* An exception of a backend command ends the call.
Raise(w, f) == R(w, [f EXCEPT !.pc = "failed"])

FilterTable(f) == TableKey(f.type, FILTER)

\* insert_rule in two steps without its test `rule not in chain.rules`.
InsertStepInUntested(w, f, tk, chain, rule, position, next) ==
    LET rules == ChainRules(w, tk, chain) IN
    IF ~(f.split /\ chain = from_chain_name(f.id))
    THEN IF InsertFails(rule, rules, position) THEN Raise(w, f)
         ELSE R(SetChain(w, tk, chain, insert_rule(rule, rules, position)), next)
    ELSE IF f.rd = <<>>
         THEN R(w, [f EXCEPT !.rd = <<FALSE, InsertPosition(rules, position)>>])
         ELSE IF f.rd[2] > Len(rules) THEN Raise(w, f)
              ELSE R(SetChain(w, tk, chain, InsertAt(rules, f.rd[2], rule)),
                     [next EXCEPT !.rd = <<>>])

\* insert_rule(rule, chain, position) on a chain of table tk as a step of a
\* call, or as two steps: `rules = chain.rules` with the test `rule not in
\* chain.rules`, then chain.insert_rule(rule, position).  A frame with
\* `split` takes the two steps on the from-chain of its endpoint.
InsertStepIn(w, f, tk, chain, rule, position, next) ==
    LET rules == ChainRules(w, tk, chain) IN
    IF ~(f.split /\ chain = from_chain_name(f.id))
    THEN IF InsertFails(rule, rules, position) THEN Raise(w, f)
         ELSE R(SetChain(w, tk, chain, insert_rule(rule, rules, position)), next)
    ELSE IF f.rd = <<>>
         THEN R(w, [f EXCEPT !.rd = <<rule \in Range(rules), InsertPosition(rules, position)>>])
         ELSE IF f.rd[1] THEN R(w, [next EXCEPT !.rd = <<>>])
              ELSE IF f.rd[2] > Len(rules) THEN Raise(w, f)
                   ELSE R(SetChain(w, tk, chain, InsertAt(rules, f.rd[2], rule)),
                          [next EXCEPT !.rd = <<>>])

\* The same on a chain of the filter table of the call's family.
InsertStep(w, f, chain, rule, position, next) ==
    InsertStepIn(w, f, FilterTable(f), chain, rule, position, next)

-----------------------------------------------------------------------------
(* set_ep_specific_rules(id, iface, type, localips, mac), step by step     *)

\* The four ipsets with the to-addr set created before the to-port set.
EpIpsetsAddrFirst(type, id) ==
    <<<<to_ipset_addr(type, id), "hash:net">>,
      <<to_ipset_port(type, id), "hash:net,port">>,
      <<from_ipset_port(type, id), "hash:net,port">>,
      <<from_ipset_addr(type, id), "hash:net">>>>

\* The four ipsets in the order of the create_ipset calls.
EpIpsets(type, id) ==
    <<<<to_ipset_port(type, id), "hash:net,port">>,
      <<to_ipset_addr(type, id), "hash:net">>,
      <<from_ipset_port(type, id), "hash:net,port">>,
      <<from_ipset_addr(type, id), "hash:net">>>>

\* create_ipset(...) of the k-th ipset
CompIpset(w, f) ==
    LET s == EpIpsets(f.type, f.id)[f.k] IN
    R(create_ipset(w, s[1], s[2], family(f.type)),
      IF f.k < Len(EpIpsets(f.type, f.id)) THEN [f EXCEPT !.k = @ + 1]
      ELSE [f EXCEPT !.pc = "to_chain"])

\* to_chain = create_chain(table, to_chain_name); index = 0
CompToChain(w, f) ==
    R(create_chain(w, FilterTable(f), to_chain_name(f.id)),
      [f EXCEPT !.pc = "to_rules", !.index = 0, !.k = 1])

\* insert_rule(rule, to_chain, index); index += 1 (not after the last DROP)
CompToRule(w, f) ==
    LET rs == ToRules(f.type, f.id) IN
    InsertStep(w, f, to_chain_name(f.id), rs[f.k], f.index,
               IF f.k < Len(rs) THEN [f EXCEPT !.k = @ + 1, !.index = @ + 1]
               ELSE [f EXCEPT !.pc = "from_chain"])

\* from_chain = create_chain(table, from_chain_name); index = 0
CompFromChain(w, f) ==
    R(create_chain(w, FilterTable(f), from_chain_name(f.id)),
      [f EXCEPT !.pc = "from_rules", !.index = 0, !.k = 1])

\* The same with the counter advanced by two after each rule.
CompFromRuleByTwo(w, f) ==
    LET rs == FromRules(f.type, f.id) IN
    InsertStep(w, f, from_chain_name(f.id), rs[f.k], f.index,
               IF f.k < Len(rs) THEN [f EXCEPT !.k = @ + 1, !.index = @ + 2]
               ELSE [f EXCEPT !.pc = "stale", !.index = @ + 2, !.passes = 0])

\* insert_rule(rule, from_chain, index); index += 1
CompFromRule(w, f) ==
    LET rs == FromRules(f.type, f.id) IN
    InsertStep(w, f, from_chain_name(f.id), rs[f.k], f.index,
               IF f.k < Len(rs) THEN [f EXCEPT !.k = @ + 1, !.index = @ + 1]
               ELSE [f EXCEPT !.pc = "stale", !.index = @ + 1, !.passes = 0])

\* The test without its comparison of the MAC.
IsStaleAddressOnly(rule, localips, mac) ==
    /\ rule.target = "RETURN"
    /\ Len(rule.matches) = 1
    /\ rule.matches[1].name = "mac"
    /\ rule.src \notin localips

\* The test of the removal loop: a MAC rule we should not have.  The code
\* reads the MAC as rule.match.mac_source; it is taken to be the MAC of the
\* rule's one match, which the log line reads as rule.matches[0].mac_source.
IsStale(rule, localips, mac) ==
    /\ rule.target = "RETURN"
    /\ Len(rule.matches) = 1
    /\ rule.matches[1].name = "mac"
    /\ (rule.src \notin localips \/ rule.matches[1].a # mac)

StalePositions(rules, localips, mac) ==
    {i \in 1..Len(rules) : IsStale(rules[i], localips, mac)}

Min(S) == CHOOSE x \in S : \A y \in S : x <= y

\* A pass that deletes every stale rule it meets instead of breaking off
\* after the first.
CompStaleSweep(w, f) ==
    LET rules == ChainRules(w, FilterTable(f), from_chain_name(f.id))
        stale == StalePositions(rules, Range(f.localips), f.mac)
        keep(r) == ~IsStale(r, Range(f.localips), f.mac)
    IN  IF stale = {}
        THEN R(w, [f EXCEPT !.pc = IF Len(f.localips) = 0 THEN "drop" ELSE "mac", !.k = 1,
                            !.passes = @ + 1])
        ELSE R(SetChain(w, FilterTable(f), from_chain_name(f.id), SelectSeq(rules, keep)),
               [f EXCEPT !.passes = @ + 1])

\* One pass of `while not done`: delete the first stale rule and start
\* again, or find none and leave the loop.
CompStale(w, f) ==
    LET rules == ChainRules(w, FilterTable(f), from_chain_name(f.id))
        stale == StalePositions(rules, Range(f.localips), f.mac)
    IN  IF stale = {}
        THEN R(w, [f EXCEPT !.pc = IF Len(f.localips) = 0 THEN "drop" ELSE "mac", !.k = 1,
                            !.passes = @ + 1])
        ELSE R(SetChain(w, FilterTable(f), from_chain_name(f.id), DeleteAt(rules, Min(stale))),
               [f EXCEPT !.passes = @ + 1])

\* The loop appending the MAC rules, insert_rule(rule, from_chain, RULE_POSN_LAST)
CompMacAppend(w, f) ==
    InsertStep(w, f, from_chain_name(f.id), MacRule(f.type, f.localips[f.k], f.mac),
               RULE_POSN_LAST,
               IF f.k < Len(f.localips) THEN [f EXCEPT !.k = @ + 1, !.index = @ + 1]
               ELSE [f EXCEPT !.pc = "drop", !.index = @ + 1])

\* for ip in localips: insert_rule(rule, from_chain, index); index += 1
CompMac(w, f) ==
    InsertStep(w, f, from_chain_name(f.id), MacRule(f.type, f.localips[f.k], f.mac), f.index,
               IF f.k < Len(f.localips) THEN [f EXCEPT !.k = @ + 1, !.index = @ + 1]
               ELSE [f EXCEPT !.pc = "drop", !.index = @ + 1])

\* insert_rule(rule, from_chain, RULE_POSN_LAST)
CompDrop(w, f) ==
    InsertStep(w, f, from_chain_name(f.id), DropRule(f.type), RULE_POSN_LAST,
               [f EXCEPT !.pc = "probe"])

\* rules_check = subprocess.call("iptables -L felix-INPUT | grep iface")
CompProbe(w, f) ==
    LET rc == GrepStatus(Listing(w, f.type, CHAIN_INPUT), f.iface) IN
    R(w, [f EXCEPT !.rules_check = rc, !.pc = IF rc = 0 THEN "done" ELSE "wire", !.k = 1])

\* The else branch without its rule on physdev-out.
WireStepsTwo(type, id, iface) ==
    <<<<"chain", CHAIN_INPUT>>,
      <<"rule", CHAIN_INPUT, PhysdevInRule(type, from_chain_name(id), iface)>>,
      <<"chain", CHAIN_FORWARD>>,
      <<"rule", CHAIN_FORWARD, PhysdevInRule(type, from_chain_name(id), iface)>>,
      <<"rule", CHAIN_FORWARD, OutInterfaceRule(type, to_chain_name(id), iface)>>>>

\* The commands of the else branch, in order: two create_chain and four
\* insert_rule(rule, chain, RULE_POSN_LAST).
WireSteps(type, id, iface) ==
    <<<<"chain", CHAIN_INPUT>>,
      <<"rule", CHAIN_INPUT, PhysdevInRule(type, from_chain_name(id), iface)>>,
      <<"chain", CHAIN_FORWARD>>,
      <<"rule", CHAIN_FORWARD, PhysdevInRule(type, from_chain_name(id), iface)>>,
      <<"rule", CHAIN_FORWARD, PhysdevOutRule(type, to_chain_name(id), iface)>>,
      <<"rule", CHAIN_FORWARD, OutInterfaceRule(type, to_chain_name(id), iface)>>>>

CompWire(w, f) ==
    LET steps == WireSteps(f.type, f.id, f.iface)
        s == steps[f.k]
        next == IF f.k < Len(steps) THEN [f EXCEPT !.k = @ + 1] ELSE [f EXCEPT !.pc = "done"]
    IN  IF s[1] = "chain" THEN R(create_chain(w, FilterTable(f), s[2]), next)
        ELSE InsertStep(w, f, s[2], s[3], RULE_POSN_LAST, next)

\* One step of a compile, whichever it is.
CompileStep(w, f) ==
    CASE f.pc = "ipsets" -> CompIpset(w, f)
      [] f.pc = "to_chain" -> CompToChain(w, f)
      [] f.pc = "to_rules" -> CompToRule(w, f)
      [] f.pc = "from_chain" -> CompFromChain(w, f)
      [] f.pc = "from_rules" -> CompFromRule(w, f)
      [] f.pc = "stale" -> CompStale(w, f)
      [] f.pc = "mac" -> CompMac(w, f)
      [] f.pc = "drop" -> CompDrop(w, f)
      [] f.pc = "probe" -> CompProbe(w, f)
      [] f.pc = "wire" -> CompWire(w, f)

\* The frame a compile starts with.
CompileFrame(id, iface, type, localips, mac) ==
    [IdleFrame EXCEPT !.op = "compile", !.pc = "ipsets", !.k = 1, !.id = id,
                      !.iface = iface, !.type = type, !.localips = localips, !.mac = mac]

\* A compile run from w to its end, uninterrupted: the kernel state it leaves.
RECURSIVE RunCompile(_, _)
RunCompile(w, f) ==
    IF f.pc \in {"done", "failed"} THEN w
    ELSE RunCompile(CompileStep(w, f).w, CompileStep(w, f).f)

-----------------------------------------------------------------------------
(* set_global_rules(), step by step                                        *)

\* DNAT tcp -- anywhere 169.254.169.254 tcp dpt:http to:127.0.0.1:9697
DnatRule ==
    [dst |-> "169.254.169.254", to_destination |-> "127.0.0.1:9697"]
    @@ add_match([create_target(get_rule(IPV4), "DNAT") EXCEPT !.protocol = "tcp"],
                 Match("tcp", "80", ""))

\* rule.create_target(chain): "forces us through the chain we just created"
JumpRule(type, chain) == create_target(get_rule(type), chain)

\* The commands before the probe: the chain of the nat table and its rule.
GlobalPre ==
    <<<<"chain", TableKey(IPV4, NAT), CHAIN_PREROUTING>>,
      <<"rule", TableKey(IPV4, NAT), CHAIN_PREROUTING, DnatRule>>>>

\* The commands after the probe for the filter table of IPv4 only.
GlobalPostOneFamily(rules_check) ==
    (IF rules_check = 0 THEN <<>>
     ELSE <<<<"rule", TableKey(IPV4, NAT), "PREROUTING", JumpRule(IPV4, CHAIN_PREROUTING)>>>>)
    \o <<<<"chain", TableKey(IPV4, FILTER), CHAIN_FORWARD>>,
         <<"chain", TableKey(IPV4, FILTER), CHAIN_INPUT>>>>
    \o (IF rules_check = 0 THEN <<>>
        ELSE <<<<"rule", TableKey(IPV4, FILTER), "FORWARD", JumpRule(IPV4, CHAIN_FORWARD)>>,
               <<"rule", TableKey(IPV4, FILTER), "INPUT", JumpRule(IPV4, CHAIN_INPUT)>>>>)

\* The commands of one turn of `for type in (IPV4, IPV6)`.
GlobalFilter(type, rules_check) ==
    <<<<"chain", TableKey(type, FILTER), CHAIN_FORWARD>>,
      <<"chain", TableKey(type, FILTER), CHAIN_INPUT>>>>
    \o (IF rules_check = 0 THEN <<>>
        ELSE <<<<"rule", TableKey(type, FILTER), "FORWARD", JumpRule(type, CHAIN_FORWARD)>>,
               <<"rule", TableKey(type, FILTER), "INPUT", JumpRule(type, CHAIN_INPUT)>>>>)

\* The commands after the probe, in order: the jump out of PREROUTING
\* unless rules_check == 0, then the two turns of the loop.
GlobalPost(rules_check) ==
    (IF rules_check = 0 THEN <<>>
     ELSE <<<<"rule", TableKey(IPV4, NAT), "PREROUTING", JumpRule(IPV4, CHAIN_PREROUTING)>>>>)
    \o GlobalFilter(IPV4, rules_check) \o GlobalFilter(IPV6, rules_check)

\* The k-th command of steps: create_chain(table, name), or
\* insert_rule(rule, chain) with its default position 0.
GlobStep(w, f, steps, after) ==
    LET s == steps[f.k]
        next == IF f.k < Len(steps) THEN [f EXCEPT !.k = @ + 1] ELSE after
    IN  IF s[1] = "chain" THEN R(create_chain(w, s[2], s[3]), next)
        ELSE InsertStepIn(w, f, s[2], s[3], s[4], 0, next)

GlobPre(w, f) == GlobStep(w, f, GlobalPre, [f EXCEPT !.pc = "g_probe"])

\* rules_check = subprocess.call("iptables -L INPUT | grep felix-INPUT")
GlobProbe(w, f) ==
    R(w, [f EXCEPT !.rules_check = GrepStatus(Listing(w, IPV4, "INPUT"), CHAIN_INPUT),
                   !.pc = "g_post", !.k = 1])

GlobPost(w, f) == GlobStep(w, f, GlobalPost(f.rules_check), [f EXCEPT !.pc = "done"])

GlobalFrame == [IdleFrame EXCEPT !.op = "global", !.pc = "g_pre", !.k = 1]

\* One step of set_global_rules, whichever it is.
GlobalStep(w, f) ==
    CASE f.pc = "g_pre" -> GlobPre(w, f)
      [] f.pc = "g_probe" -> GlobProbe(w, f)
      [] f.pc = "g_post" -> GlobPost(w, f)

\* set_global_rules run from w to its end, uninterrupted.
RECURSIVE RunGlobal(_, _)
RunGlobal(w, f) ==
    IF f.pc \in {"done", "failed"} THEN w
    ELSE RunGlobal(GlobalStep(w, f).w, GlobalStep(w, f).f)

-----------------------------------------------------------------------------
(* del_rules(id, type), step by step                                       *)

\* for name in (CHAIN_INPUT, CHAIN_FORWARD)
DispatchChains == <<CHAIN_INPUT, CHAIN_FORWARD>>

\* for name in (from_chain, to_chain)
EpChains(id) == <<from_chain_name(id), to_chain_name(id)>>

\* The list of ipsets to destroy without its last entry.
DelIpsetsShort(type, id) ==
    <<from_ipset_addr(type, id), from_ipset_port(type, id), to_ipset_addr(type, id)>>

\* for ipset in [from_ipset_addr, from_ipset_port, to_ipset_addr, to_ipset_port]
DelIpsets(type, id) ==
    <<from_ipset_addr(type, id), from_ipset_port(type, id),
      to_ipset_addr(type, id), to_ipset_port(type, id)>>

\* The kernel deletes no chain that a rule of its table jumps to.
ChainReferenced(w, tk, name) ==
    \E c \in DOMAIN w.tables[tk] :
        \E i \in 1..Len(w.tables[tk][c]) : w.tables[tk][c][i].target = name

\* The kernel destroys no set that a rule of a chain matches on.
IpsetReferenced(w, name) ==
    \E tk \in DOMAIN w.tables : \E c \in DOMAIN w.tables[tk] :
        \E i \in 1..Len(w.tables[tk][c]) :
            \E j \in 1..Len(w.tables[tk][c][i].matches) :
                /\ w.tables[tk][c][i].matches[j].name = "set"
                /\ w.tables[tk][c][i].matches[j].a = name

\* table.delete_chain(name) of an existing chain
delete_chain(w, tk, name) ==
    [w EXCEPT !.tables[tk] = [c \in DOMAIN @ \ {name} |-> @[c]]]

\* ipset destroy <name>
destroy_ipset(w, name) ==
    [w EXCEPT !.ipsets = [n \in DOMAIN @ \ {name} |-> @[n]]]

\* chain = create_chain(table, name) of the k-th dispatch chain
DelDispatchChain(w, f) ==
    R(create_chain(w, FilterTable(f), DispatchChains[f.k]),
      [f EXCEPT !.pc = "d_scan", !.passes = 0])

\* The rules of a dispatch chain that send to the endpoint's to-chain only.
DispatchPositionsTo(rules, id) ==
    {i \in 1..Len(rules) : rules[i].target = to_chain_name(id)}

\* The rules of a dispatch chain whose target begins with the name of one of
\* the endpoint's chains.
DispatchPositionsPrefix(rules, id) ==
    {i \in 1..Len(rules) :
        \/ StartsWith(rules[i].target, to_chain_name(id))
        \/ StartsWith(rules[i].target, from_chain_name(id))}

\* The rules of a dispatch chain that send to one of the endpoint's chains.
DispatchPositions(rules, id) ==
    {i \in 1..Len(rules) : rules[i].target \in {to_chain_name(id), from_chain_name(id)}}

\* A scan that goes on to the next chain after its first removal.
DelScanOnce(w, f) ==
    LET rules == ChainRules(w, FilterTable(f), DispatchChains[f.k])
        hit == DispatchPositions(rules, f.id)
        next == IF f.k < Len(DispatchChains)
                THEN [f EXCEPT !.pc = "d_chain", !.k = @ + 1, !.passes = @ + 1]
                ELSE [f EXCEPT !.pc = "c_flush", !.k = 1, !.passes = @ + 1]
    IN  IF hit # {}
        THEN R(SetChain(w, FilterTable(f), DispatchChains[f.k], DeleteAt(rules, Min(hit))), next)
        ELSE R(w, next)

\* One pass of `while not done` over the k-th dispatch chain: delete the
\* first rule that targets the endpoint's chains and start again, or find
\* none and go on.
DelScan(w, f) ==
    LET rules == ChainRules(w, FilterTable(f), DispatchChains[f.k])
        hit == DispatchPositions(rules, f.id)
    IN  IF hit # {}
        THEN R(SetChain(w, FilterTable(f), DispatchChains[f.k], DeleteAt(rules, Min(hit))),
               [f EXCEPT !.passes = @ + 1])
        ELSE IF f.k < Len(DispatchChains)
             THEN R(w, [f EXCEPT !.pc = "d_chain", !.k = @ + 1, !.passes = @ + 1])
             ELSE R(w, [f EXCEPT !.pc = "c_flush", !.k = 1, !.passes = @ + 1])

\* After the k-th of the endpoint's chains.
AfterChain(f) ==
    IF f.k < Len(EpChains(f.id)) THEN [f EXCEPT !.pc = "c_flush", !.k = @ + 1]
    ELSE [f EXCEPT !.pc = "sets", !.k = 1]

\* if table.is_chain(name): chain.flush()
DelFlush(w, f) ==
    LET name == EpChains(f.id)[f.k] IN
    IF is_chain(w, FilterTable(f), name)
    THEN R(SetChain(w, FilterTable(f), name, <<>>), [f EXCEPT !.pc = "c_delete"])
    ELSE R(w, AfterChain(f))

\* table.delete_chain(name)
DelDelete(w, f) ==
    LET name == EpChains(f.id)[f.k] IN
    IF ChainReferenced(w, FilterTable(f), name) THEN Raise(w, f)
    ELSE R(delete_chain(w, FilterTable(f), name), AfterChain(f))

\* if call_silent(["ipset", "list", ipset]) == 0: ipset destroy
DelIpset(w, f) ==
    LET name == DelIpsets(f.type, f.id)[f.k]
        next == IF f.k < Len(DelIpsets(f.type, f.id)) THEN [f EXCEPT !.k = @ + 1]
                ELSE [f EXCEPT !.pc = "done"]
    IN  IF name \notin DOMAIN w.ipsets THEN R(w, next)
        ELSE IF IpsetReferenced(w, name) THEN Raise(w, f)
        ELSE R(destroy_ipset(w, name), next)

DelFrame(id, type) ==
    [IdleFrame EXCEPT !.op = "del", !.pc = "d_chain", !.k = 1, !.id = id, !.type = type]

-----------------------------------------------------------------------------
(* set_acls(id, type, inbound, in_default, outbound, out_default) and      *)
(* update_ipsets, step by step.  An ACL rule is a record of cidr, protocol *)
(* and port, each None (the empty tuple) or one value.                     *)

None == <<>>
Some(x) == <<x>>

AclRule(cidr, protocol, port) == [cidr |-> cidr, protocol |-> protocol, port |-> port]

\* The two tests of update_ipsets that reach log.error.
InvalidRule(rule) ==
    \/ rule.cidr = None
    \/ (rule.protocol = None /\ rule.port # None)

\* The member string of a rule that passed the tests:
\* "%s,%s:%s" % (cidr, protocol, port), "%s,%s:0" % (cidr, protocol), or cidr
MemberValue(rule) ==
    IF rule.port # None
    THEN rule.cidr[1] \o "," \o rule.protocol[1] \o ":" \o ToString(rule.port[1])
    ELSE IF rule.protocol # None
         THEN rule.cidr[1] \o "," \o rule.protocol[1] \o ":0"
         ELSE rule.cidr[1]

\* Whether the value goes to tmp_ipset_port (else to tmp_ipset_addr).
ToPortSet(rule) == rule.port # None \/ rule.protocol # None

\* ipset add <name> <value> -exist
add_member(w, name, value) == [w EXCEPT !.ipsets[name].members = @ \cup {value}]

\* ipset flush <name>
flush_ipset(w, name) == [w EXCEPT !.ipsets[name].members = {}]

\* A publication that adds a's members to b instead of exchanging them.
swap_ipsets_merging(w, a, b) ==
    [w EXCEPT !.ipsets[b].members = @ \cup w.ipsets[a].members]

\* ipset swap <a> <b>: the two sets exchange their members
swap_ipsets(w, a, b) ==
    [w EXCEPT !.ipsets[a].members = w.ipsets[b].members,
              !.ipsets[b].members = w.ipsets[a].members]

\* ipset refuses to swap a set that does not exist or sets of two types.
SwapFails(w, a, b) ==
    \/ a \notin DOMAIN w.ipsets
    \/ b \notin DOMAIN w.ipsets
    \/ w.ipsets[a].typename # w.ipsets[b].typename
    \/ w.ipsets[a].family # w.ipsets[b].family

\* create_ipset(tmp_ipset_port, ...); create_ipset(tmp_ipset_addr, ...)
TmpIpsets(type) ==
    <<<<tmp_ipset_port(type), "hash:net,port">>, <<tmp_ipset_addr(type), "hash:net">>>>

\* The rule list, the (addr, port) pair it is published to.
AclList(f) == IF f.dir = 1 THEN f.inbound ELSE f.outbound
AclAddr(f) == IF f.dir = 1 THEN to_ipset_addr(f.type, f.id) ELSE from_ipset_addr(f.type, f.id)
AclPort(f) == IF f.dir = 1 THEN to_ipset_port(f.type, f.id) ELSE from_ipset_port(f.type, f.id)

\* update_ipsets(rule_list, ...) begins: the loop, or the swap if the list is empty
EnterUpdate(f, dir) ==
    LET g == [f EXCEPT !.dir = dir, !.k = 1] IN
    [g EXCEPT !.pc = IF Len(AclList(g)) = 0 THEN "swap" ELSE "add"]

AclTmpCreate(w, f) ==
    LET s == TmpIpsets(f.type)[f.k] IN
    R(create_ipset(w, s[1], s[2], family(f.type)),
      IF f.k < Len(TmpIpsets(f.type)) THEN [f EXCEPT !.k = @ + 1]
      ELSE [f EXCEPT !.pc = "tmp_flush", !.k = 1])

\* set_acls without the two flushes that follow the create_ipset calls.
AclTmpFlushSkipped(w, f) ==
    R(w, IF f.k < Len(TmpIpsets(f.type)) THEN [f EXCEPT !.k = @ + 1]
         ELSE EnterUpdate(f, 1))

\* subprocess.check_call(["ipset", "flush", tmp_ipset_port]), then tmp_ipset_addr
AclTmpFlush(w, f) ==
    R(flush_ipset(w, TmpIpsets(f.type)[f.k][1]),
      IF f.k < Len(TmpIpsets(f.type)) THEN [f EXCEPT !.k = @ + 1]
      ELSE EnterUpdate(f, 1))

\* One turn of `for rule in rule_list`.  For an invalid rule the arguments
\* of log.error are evaluated first: (descr, id, rule) names `descr`, which
\* is no name of update_ipsets or of the module, so a NameError is raised
\* and the `continue` is never reached.
AclAdd(w, f) ==
    LET rule == AclList(f)[f.k]
        next == IF f.k < Len(AclList(f)) THEN [f EXCEPT !.k = @ + 1]
                ELSE [f EXCEPT !.pc = "swap", !.k = 1]
    IN  IF InvalidRule(rule) THEN Raise(w, f)
        ELSE R(add_member(w, IF ToPortSet(rule) THEN tmp_ipset_port(f.type)
                             ELSE tmp_ipset_addr(f.type), MemberValue(rule)),
               next)

\* The two swaps made with subprocess.call: a swap that ipset refuses is
\* passed over and the call goes on.
AclSwapUnchecked(w, f) ==
    LET pair == IF f.k = 1 THEN <<tmp_ipset_addr(f.type), AclAddr(f)>>
                ELSE <<tmp_ipset_port(f.type), AclPort(f)>>
        next == IF f.k < 2 THEN [f EXCEPT !.k = @ + 1] ELSE [f EXCEPT !.pc = "flush", !.k = 1]
    IN  IF SwapFails(w, pair[1], pair[2]) THEN R(w, next)
        ELSE R(swap_ipsets(w, pair[1], pair[2]), next)

\* The two swaps with the permanent sets exchanged: tmp_ipset_addr with
\* ipset_port, then tmp_ipset_port with ipset_addr, whatever their types.
AclSwapCrossed(w, f) ==
    LET pair == IF f.k = 1 THEN <<tmp_ipset_addr(f.type), AclPort(f)>>
                ELSE <<tmp_ipset_port(f.type), AclAddr(f)>>
    IN  IF pair[1] \notin DOMAIN w.ipsets \/ pair[2] \notin DOMAIN w.ipsets THEN Raise(w, f)
        ELSE R(swap_ipsets(w, pair[1], pair[2]),
               IF f.k < 2 THEN [f EXCEPT !.k = @ + 1] ELSE [f EXCEPT !.pc = "flush", !.k = 1])

\* ipset swap tmp_ipset_addr ipset_addr, then ipset swap tmp_ipset_port ipset_port
AclSwap(w, f) ==
    LET pair == IF f.k = 1 THEN <<tmp_ipset_addr(f.type), AclAddr(f)>>
                ELSE <<tmp_ipset_port(f.type), AclPort(f)>>
    IN  IF SwapFails(w, pair[1], pair[2]) THEN Raise(w, f)
        ELSE R(swap_ipsets(w, pair[1], pair[2]),
               IF f.k < 2 THEN [f EXCEPT !.k = @ + 1] ELSE [f EXCEPT !.pc = "flush", !.k = 1])

\* The end of update_ipsets without its two flushes.
AclFlushSkipped(w, f) ==
    R(w, IF f.k < Len(TmpIpsets(f.type)) THEN [f EXCEPT !.k = @ + 1]
         ELSE IF f.dir = 1 THEN EnterUpdate(f, 2) ELSE [f EXCEPT !.pc = "done"])

\* ipset flush tmp_ipset_port, then ipset flush tmp_ipset_addr
AclFlush(w, f) ==
    R(flush_ipset(w, TmpIpsets(f.type)[f.k][1]),
      IF f.k < Len(TmpIpsets(f.type)) THEN [f EXCEPT !.k = @ + 1]
      ELSE IF f.dir = 1 THEN EnterUpdate(f, 2) ELSE [f EXCEPT !.pc = "done"])

AclsFrame(id, type, inbound, outbound) ==
    [IdleFrame EXCEPT !.op = "acls", !.pc = "tmp_create", !.k = 1, !.id = id,
                      !.type = type, !.inbound = inbound, !.outbound = outbound]

\* One step of set_acls, whichever it is.
AclStep(w, f) ==
    CASE f.pc = "tmp_create" -> AclTmpCreate(w, f)
      [] f.pc = "tmp_flush" -> AclTmpFlush(w, f)
      [] f.pc = "add" -> AclAdd(w, f)
      [] f.pc = "swap" -> AclSwap(w, f)
      [] f.pc = "flush" -> AclFlush(w, f)

\* set_acls run from w to its end, uninterrupted: the kernel state it leaves.
RECURSIVE RunAcls(_, _)
RunAcls(w, f) ==
    IF f.pc \in {"done", "failed"} THEN w
    ELSE RunAcls(AclStep(w, f).w, AclStep(w, f).f)

-----------------------------------------------------------------------------
(* list_eps_with_rules(type)                                               *)

\* str.replace(old, ""): every occurrence of old, left to right, is removed
RECURSIVE Remove(_, _)
Remove(str, old) ==
    IF Len(str) < Len(old) \/ Len(old) = 0 THEN str
    ELSE IF SubSeq(str, 1, Len(old)) = old
         THEN Remove(SubSeq(str, Len(old) + 1, Len(str)), old)
         ELSE SubSeq(str, 1, 1) \o Remove(SubSeq(str, 2, Len(str)), old)

\* The set the function returns: the suffixes of the "to" chains of the
\* family's filter table and of the to-port ipsets that `ipset list` names.
list_eps_with_rules(w, type) ==
    {Remove(name, CHAIN_TO_PREFIX) :
        name \in {n \in DOMAIN w.tables[TableKey(type, FILTER)] : StartsWith(n, CHAIN_TO_PREFIX)}}
    \cup {Remove(name, IPSET_TO_PORT_PREFIX) :
            name \in {n \in DOMAIN w.ipsets : StartsWith(n, IPSET_TO_PORT_PREFIX)}}
    \cup {Remove(name, IPSET6_TO_PORT_PREFIX) :
            name \in {n \in DOMAIN w.ipsets :
                        /\ ~StartsWith(n, IPSET_TO_PORT_PREFIX)
                        /\ StartsWith(n, IPSET6_TO_PORT_PREFIX)}}

ListStep(w, f) ==
    R(w, [f EXCEPT !.result = list_eps_with_rules(w, f.type), !.pc = "done"])

ListFrame(type) == [IdleFrame EXCEPT !.op = "list", !.pc = "list", !.type = type]

-----------------------------------------------------------------------------
(* What exists of an endpoint                                              *)

\* Something of (id, type) exists: an ipset, a chain, or a dispatch rule.
HasArtifact(w, type, id) ==
    \/ \E i \in 1..Len(EpIpsets(type, id)) : EpIpsets(type, id)[i][1] \in DOMAIN w.ipsets
    \/ \E i \in 1..Len(EpChains(id)) :
          \/ is_chain(w, TableKey(type, FILTER), EpChains(id)[i])
          \/ ChainReferenced(w, TableKey(type, FILTER), EpChains(id)[i])

-----------------------------------------------------------------------------
(* The actions                                                             *)

Callers == {1}

\* The host before Felix has done anything, with the endpoints of M to manage.
InitWith(M) ==
    /\ tables = EmptyTables
    /\ ipsets = <<>>
    /\ call = [c \in Callers |-> IdleFrame]
    /\ last = NoCall
    /\ crashes = 0
    /\ managed = M

\* One endpoint in one family, either family.
Init == \E id \in Endpoints, type \in Types : InitWith({<<id, type>>})

\* The caller serializes the calls: one starts when no other is running.
AllIdle == \A c \in DOMAIN call : call[c].op = "idle"

Step(c, op, pc, r) ==
    /\ call[c].op = op
    /\ call[c].pc = pc
    /\ tables' = r.w.tables
    /\ ipsets' = r.w.ipsets
    /\ call' = [call EXCEPT ![c] = r.f]
    /\ UNCHANGED <<last, crashes, managed>>

Begin(c, f, tag) ==
    /\ AllIdle
    /\ call' = [call EXCEPT ![c] = [f EXCEPT !.before = World, !.prev = last, !.tag = tag]]
    /\ UNCHANGED <<tables, ipsets, last, crashes, managed>>

\* A compile that starts where nothing of the endpoint exists is "clean".
StartCompile(c, id, iface, type, localips, mac) ==
    Begin(c, CompileFrame(id, iface, type, localips, mac),
          IF \E t \in Types : HasArtifact(World, t, id) THEN "" ELSE "clean")

\* A teardown that directly follows a completed clean compile of the same
\* endpoint and family is a "roundtrip".
StartDel(c, id, type) ==
    Begin(c, DelFrame(id, type),
          IF /\ last.op = "compile" /\ last.status = "done" /\ last.tag = "clean"
             /\ last.id = id /\ last.type = type
          THEN "roundtrip" ELSE "")

StartList(c, type) == Begin(c, ListFrame(type), "")

StartAcls(c, id, type, inbound, outbound) ==
    Begin(c, AclsFrame(id, type, inbound, outbound), "")

CompileIpset(c) == Step(c, "compile", "ipsets", CompIpset(World, call[c]))
CompileToChain(c) == Step(c, "compile", "to_chain", CompToChain(World, call[c]))
CompileToRule(c) == Step(c, "compile", "to_rules", CompToRule(World, call[c]))
CompileFromChain(c) == Step(c, "compile", "from_chain", CompFromChain(World, call[c]))
CompileFromRule(c) == Step(c, "compile", "from_rules", CompFromRule(World, call[c]))
CompileStale(c) == Step(c, "compile", "stale", CompStale(World, call[c]))
CompileMac(c) == Step(c, "compile", "mac", CompMac(World, call[c]))
CompileDrop(c) == Step(c, "compile", "drop", CompDrop(World, call[c]))
CompileProbe(c) == Step(c, "compile", "probe", CompProbe(World, call[c]))
CompileWire(c) == Step(c, "compile", "wire", CompWire(World, call[c]))

DelRulesDispatchChain(c) == Step(c, "del", "d_chain", DelDispatchChain(World, call[c]))
DelRulesScan(c) == Step(c, "del", "d_scan", DelScan(World, call[c]))
DelRulesFlush(c) == Step(c, "del", "c_flush", DelFlush(World, call[c]))
DelRulesDelete(c) == Step(c, "del", "c_delete", DelDelete(World, call[c]))
DelRulesIpset(c) == Step(c, "del", "sets", DelIpset(World, call[c]))

SetAclsTmpCreate(c) == Step(c, "acls", "tmp_create", AclTmpCreate(World, call[c]))
SetAclsTmpFlush(c) == Step(c, "acls", "tmp_flush", AclTmpFlush(World, call[c]))
UpdateIpsetsAdd(c) == Step(c, "acls", "add", AclAdd(World, call[c]))
UpdateIpsetsSwap(c) == Step(c, "acls", "swap", AclSwap(World, call[c]))
UpdateIpsetsFlush(c) == Step(c, "acls", "flush", AclFlush(World, call[c]))

ListEps(c) == Step(c, "list", "list", ListStep(World, call[c]))

StartGlobal(c) == Begin(c, GlobalFrame, "")
SetGlobalPre(c) == Step(c, "global", "g_pre", GlobPre(World, call[c]))
SetGlobalProbe(c) == Step(c, "global", "g_probe", GlobProbe(World, call[c]))
SetGlobalPost(c) == Step(c, "global", "g_post", GlobPost(World, call[c]))

\* The call returns, or its exception reaches the caller.
Return(c) ==
    /\ call[c].pc \in {"done", "failed"}
    /\ last' = Summary(call[c], call[c].pc)
    /\ call' = [call EXCEPT ![c] = IdleFrame]
    /\ UNCHANGED <<tables, ipsets, crashes, managed>>

\* The process dies between two backend commands of a call.
Crash(c) ==
    /\ call[c].op # "idle"
    /\ call[c].pc \notin {"done", "failed", "crashed"}
    /\ crashes < MaxCrashes
    /\ crashes' = crashes + 1
    /\ call' = [call EXCEPT ![c].pc = "crashed"]
    /\ UNCHANGED <<tables, ipsets, last, managed>>

\* The frame a call of f's function with f's arguments starts with.
FirstFrame(f) ==
    CASE f.op = "compile" -> CompileFrame(f.id, f.iface, f.type, f.localips, f.mac)
      [] f.op = "del" -> DelFrame(f.id, f.type)
      [] f.op = "list" -> ListFrame(f.type)
      [] f.op = "acls" -> AclsFrame(f.id, f.type, f.inbound, f.outbound)
      [] f.op = "global" -> GlobalFrame

\* After the crash the whole call is made again with the same arguments.
\* `before` stays the kernel state the interrupted call started from.
Retry(c) ==
    /\ call[c].pc = "crashed"
    /\ call' = [call EXCEPT ![c] = [FirstFrame(call[c]) EXCEPT
                    !.before = call[c].before, !.tag = call[c].tag,
                    !.prev = Summary(call[c], "crashed")]]
    /\ UNCHANGED <<tables, ipsets, last, crashes, managed>>

\* After the crash the call is not made again.
Abandon(c) ==
    /\ call[c].pc = "crashed"
    /\ last' = Summary(call[c], "crashed")
    /\ call' = [call EXCEPT ![c] = IdleFrame]
    /\ UNCHANGED <<tables, ipsets, crashes, managed>>

CompileSteps(c) ==
    \/ CompileIpset(c)
    \/ CompileToChain(c)
    \/ CompileToRule(c)
    \/ CompileFromChain(c)
    \/ CompileFromRule(c)
    \/ CompileStale(c)
    \/ CompileMac(c)
    \/ CompileDrop(c)
    \/ CompileProbe(c)
    \/ CompileWire(c)

DelSteps(c) ==
    \/ DelRulesDispatchChain(c)
    \/ DelRulesScan(c)
    \/ DelRulesFlush(c)
    \/ DelRulesDelete(c)
    \/ DelRulesIpset(c)

AclSteps(c) ==
    \/ SetAclsTmpCreate(c)
    \/ SetAclsTmpFlush(c)
    \/ UpdateIpsetsAdd(c)
    \/ UpdateIpsetsSwap(c)
    \/ UpdateIpsetsFlush(c)

\* The calls of the endpoint manager, an endpoint having up to n addresses.
Calls(c, n) ==
    \/ \E ep \in managed, mac \in Macs : \E localips \in LocalIpOrders(ep[2], n) :
            StartCompile(c, ep[1], IfaceOf(ep[1]), ep[2], localips, mac)
    \/ \E ep \in managed : StartDel(c, ep[1], ep[2])
    \/ \E ep \in managed : StartList(c, ep[2])

\* The calls one at a time and each to its end.
Next ==
    \E c \in Callers :
        \/ Calls(c, MaxIps)
        \/ CompileSteps(c)
        \/ DelSteps(c)
        \/ ListEps(c)
        \/ Return(c)

Spec == Init /\ [][Next]_vars

\* The same, a running call going on to its next command: nothing in the
\* code waits, and the caller starts no call while one is running.
SpecFair == Spec /\ WF_vars(Next)

\* The same calls, any of which may be interrupted.
NextCrash ==
    \E c \in Callers :
        \/ Calls(c, MaxCrashIps)
        \/ CompileSteps(c)
        \/ DelSteps(c)
        \/ ListEps(c)
        \/ Return(c)
        \/ Crash(c)
        \/ Retry(c)
        \/ Abandon(c)

SpecCrash == Init /\ [][NextCrash]_vars

\* The rules that send to the chains of an endpoint.
DispatchRules(type, id) ==
    {PhysdevInRule(type, from_chain_name(id), IfaceOf(id)),
     PhysdevOutRule(type, to_chain_name(id), IfaceOf(id)),
     OutInterfaceRule(type, to_chain_name(id), IfaceOf(id))}

\* The sequences of up to n elements of S.
Seqs(S, n) == UNION {[1..m -> S] : m \in 0..n}

\* The endpoint that is torn down and another one of the host.
TornDown == "e1"
Neighbour == "e2"

\* The host with the chains of the neighbour, with or without everything a
\* compile of the endpoint makes, and with the dispatch chains as given.
DelWorld(type, built, input, forward) ==
    LET tk == TableKey(type, FILTER)
        w0 == IF built
              THEN RunCompile(EmptyWorld,
                              CompileFrame(TornDown, IfaceOf(TornDown), type,
                                           <<AddrList(type)[1]>>, "aa:bb:cc:dd:ee:ff"))
              ELSE EmptyWorld
        w1 == create_chain(create_chain(w0, tk, to_chain_name(Neighbour)),
                           tk, from_chain_name(Neighbour))
        w2 == create_chain(create_chain(w1, tk, CHAIN_INPUT), tk, CHAIN_FORWARD)
    IN  SetChain(SetChain(w2, tk, CHAIN_INPUT, input), tk, CHAIN_FORWARD, forward)

\* A teardown is started from any state of the two dispatch chains: any
\* rules of the endpoint and of its neighbour, in any number and order.
InitDel ==
    \E type \in Types, built \in BOOLEAN :
      \E input \in Seqs(DispatchRules(type, TornDown) \cup DispatchRules(type, Neighbour),
                        MaxDispatch) :
        \E forward \in Seqs(DispatchRules(type, TornDown) \cup DispatchRules(type, Neighbour),
                            MaxDispatch - Len(input)) :
            /\ tables = DelWorld(type, built, input, forward).tables
            /\ ipsets = DelWorld(type, built, input, forward).ipsets
            /\ call = [c \in Callers |-> IdleFrame]
            /\ last = NoCall
            /\ crashes = 0
            /\ managed = {<<TornDown, type>>}

NextDel ==
    \E c \in Callers :
        \/ \E ep \in managed : StartDel(c, ep[1], ep[2])
        \/ DelSteps(c)
        \/ Return(c)

SpecDel == InitDel /\ [][NextDel]_vars

\* Two endpoints of one host; the interface name of the first begins the
\* interface name of the second.
Several == {"e1", "e12"}

InitSeveral == \E type \in Types : InitWith({<<id, type>> : id \in Several})

\* Compiles and teardowns of the endpoints, one call at a time, and
\* discovery for either family.
NextSeveral ==
    \E c \in Callers :
        \/ \E ep \in managed :
                StartCompile(c, ep[1], IfaceOf(ep[1]), ep[2], <<AddrList(ep[2])[1]>>,
                             "aa:bb:cc:dd:ee:ff")
        \/ \E ep \in managed : StartDel(c, ep[1], ep[2])
        \/ \E type \in Types : StartList(c, type)
        \/ CompileSteps(c)
        \/ DelSteps(c)
        \/ ListEps(c)
        \/ Return(c)

SpecSeveral == InitSeveral /\ [][NextSeveral]_vars

GlobalSteps(c) ==
    \/ SetGlobalPre(c)
    \/ SetGlobalProbe(c)
    \/ SetGlobalPost(c)

\* The baseline installer, run any number of times among the compiles and
\* teardowns of an endpoint, one call at a time.
NextGlobal ==
    \E c \in Callers :
        \/ StartGlobal(c)
        \/ \E ep \in managed :
                StartCompile(c, ep[1], IfaceOf(ep[1]), ep[2], <<AddrList(ep[2])[1]>>,
                             "aa:bb:cc:dd:ee:ff")
        \/ \E ep \in managed : StartDel(c, ep[1], ep[2])
        \/ GlobalSteps(c)
        \/ CompileSteps(c)
        \/ DelSteps(c)
        \/ Return(c)

SpecGlobal == Init /\ [][NextGlobal]_vars

\* The baseline installer, interrupted between any two of its commands and
\* run again or not.
NextGlobalCrash ==
    \E c \in Callers :
        \/ StartGlobal(c)
        \/ GlobalSteps(c)
        \/ Return(c)
        \/ Crash(c)
        \/ Retry(c)
        \/ Abandon(c)

SpecGlobalCrash == Init /\ [][NextGlobalCrash]_vars

\* Two callers that nothing serializes.
Concurrent == {1, 2}

\* The endpoint as one compile made it.
Compiled(id, type) ==
    RunCompile(EmptyWorld,
               CompileFrame(id, IfaceOf(id), type, <<AddrList(type)[1]>>, "aa:bb:cc:dd:ee:ff"))

\* A compile run from w until it is about to probe for the dispatch rules.
RECURSIVE RunCompileToProbe(_, _)
RunCompileToProbe(w, f) ==
    IF f.pc \in {"probe", "done", "failed"} THEN w
    ELSE RunCompileToProbe(CompileStep(w, f).w, CompileStep(w, f).f)

\* The endpoint as a compile that was interrupted before its probe left it:
\* chains and ipsets made, no dispatch rule yet.
CompiledUnwired(id, type) ==
    RunCompileToProbe(EmptyWorld,
                      CompileFrame(id, IfaceOf(id), type, <<AddrList(type)[1]>>,
                                   "aa:bb:cc:dd:ee:ff"))

InitConc ==
    \E id \in Endpoints, type \in Types :
      \E w \in {Compiled(id, type), CompiledUnwired(id, type)} :
        /\ tables = w.tables
        /\ ipsets = w.ipsets
        /\ call = [c \in Concurrent |-> IdleFrame]
        /\ last = NoCall
        /\ crashes = 0
        /\ managed = {<<id, type>>}

\* The two endpoints in both families.
InitBoth == InitWith(Several \X Types)

\* Compiles and teardowns of the two endpoints in either family, one call
\* at a time, and discovery.
SpecBoth == InitBoth /\ [][NextSeveral]_vars

\* Another caller is inside a call.
OtherRunning(c) ==
    \E d \in DOMAIN call : d # c /\ call[d].op # "idle" /\ call[d].pc \notin {"done", "failed"}

\* A compile starts whatever the other caller is doing; it "overlaps" when
\* the other caller is inside a call.  insert_rule is two backend commands
\* here: the read of the chain's rules, then the insert at the position
\* computed from what was read.
StartCompileConc(c, id, iface, type, localips, mac) ==
    /\ call[c].op = "idle"
    /\ call' = [call EXCEPT ![c] =
                    [CompileFrame(id, iface, type, localips, mac) EXCEPT
                        !.split = TRUE,
                        !.tag = IF OtherRunning(c) THEN "overlap" ELSE ""]]
    /\ UNCHANGED <<tables, ipsets, last, crashes, managed>>

\* Each caller makes one compile of the endpoint, the commands of the two
\* calls in any order.
NextConc ==
    \E c \in Concurrent :
        \/ \E ep \in managed, mac \in Macs : \E localips \in LocalIpOrders(ep[2], MaxConcIps) :
                StartCompileConc(c, ep[1], IfaceOf(ep[1]), ep[2], localips, mac)
        \/ CompileSteps(c)

SpecConc == InitConc /\ [][NextConc]_vars

\* Synchronizations of an endpoint, before and after it is compiled.
NextAcl ==
    \E c \in Callers :
        \/ \E ep \in managed : \E inbound \in AclLists(MaxAclRules) :
              \E outbound \in AclLists(MaxAclRules - Len(inbound)) :
                StartAcls(c, ep[1], ep[2], inbound, outbound)
        \/ \E ep \in managed :
                StartCompile(c, ep[1], IfaceOf(ep[1]), ep[2], <<AddrList(ep[2])[1]>>,
                             "aa:bb:cc:dd:ee:ff")
        \/ AclSteps(c)
        \/ CompileSteps(c)
        \/ Return(c)

SpecAcl == Init /\ [][NextAcl]_vars

\* The rule lists of up to n rules that update_ipsets encodes.
ValidAclLists(n) == {l \in AclLists(n) : \A r \in Range(l) : ~InvalidRule(r)}

\* The endpoint is compiled: its four ipsets exist.
InitAclCrash ==
    \E id \in Endpoints, type \in Types :
        /\ tables = Compiled(id, type).tables
        /\ ipsets = Compiled(id, type).ipsets
        /\ call = [c \in Callers |-> IdleFrame]
        /\ last = NoCall
        /\ crashes = 0
        /\ managed = {<<id, type>>}

\* Synchronizations of the endpoint with lists of valid rules, any of which
\* may be interrupted between two of its commands and is then made again.
NextAclCrash ==
    \E c \in Callers :
        \/ \E ep \in managed : \E inbound \in ValidAclLists(MaxAclRules) :
              \E outbound \in ValidAclLists(MaxAclRules - Len(inbound)) :
                StartAcls(c, ep[1], ep[2], inbound, outbound)
        \/ AclSteps(c)
        \/ Return(c)
        \/ Crash(c)
        \/ Retry(c)

SpecAclCrash == InitAclCrash /\ [][NextAclCrash]_vars

\* Compiles, synchronizations with any lists and teardowns of an endpoint,
\* one call at a time.
NextShapes ==
    \E c \in Callers :
        \/ \E ep \in managed : \E inbound \in AclLists(MaxAclRules) :
              \E outbound \in AclLists(MaxAclRules - Len(inbound)) :
                StartAcls(c, ep[1], ep[2], inbound, outbound)
        \/ \E ep \in managed :
                StartCompile(c, ep[1], IfaceOf(ep[1]), ep[2], <<AddrList(ep[2])[1]>>,
                             "aa:bb:cc:dd:ee:ff")
        \/ \E ep \in managed : StartDel(c, ep[1], ep[2])
        \/ AclSteps(c)
        \/ CompileSteps(c)
        \/ DelSteps(c)
        \/ Return(c)

SpecShapes == Init /\ [][NextShapes]_vars

\* The endpoint each of the two callers synchronizes: the calls for one
\* endpoint are made one after the other, those for two endpoints are not.
Owner(c) == IF c = 1 THEN "e1" ELSE "e2"

\* Both endpoints are compiled, in one family.
InitAclConc ==
    \E type \in Types :
      LET w == RunCompile(Compiled(Owner(1), type),
                          CompileFrame(Owner(2), IfaceOf(Owner(2)), type,
                                       <<AddrList(type)[1]>>, "aa:bb:cc:dd:ee:ff"))
      IN  /\ tables = w.tables
          /\ ipsets = w.ipsets
          /\ call = [c \in Concurrent |-> IdleFrame]
          /\ last = NoCall
          /\ crashes = 0
          /\ managed = {<<Owner(c), type>> : c \in Concurrent}

\* set_acls for the caller's endpoint starts whatever the other caller is
\* doing.
StartAclsConc(c, type, inbound, outbound) ==
    /\ call[c].op = "idle"
    /\ call' = [call EXCEPT ![c] = AclsFrame(Owner(c), type, inbound, outbound)]
    /\ UNCHANGED <<tables, ipsets, last, crashes, managed>>

\* Each caller synchronizes its endpoint once, the commands of the two calls
\* in any order.
NextAclConc ==
    \E c \in Concurrent :
        \/ \E ep \in managed : \E inbound \in ValidAclLists(MaxConcRules) :
              \E outbound \in ValidAclLists(MaxConcRules - Len(inbound)) :
                StartAclsConc(c, ep[2], inbound, outbound)
        \/ AclSteps(c)

SpecAclConc == InitAclConc /\ [][NextAclConc]_vars

-----------------------------------------------------------------------------
(* Properties                                                              *)

Frames == {call[c] : c \in DOMAIN call}

\* A compile that has run to its end.
CompileDone(f) == f.op = "compile" /\ f.pc = "done"

\* f is a compile made directly after a completed compile with the same arguments.
Rerun(f) ==
    /\ CompileDone(f)
    /\ f.prev.op = "compile" /\ f.prev.status = "done"
    /\ f.prev.id = f.id /\ f.prev.iface = f.iface /\ f.prev.type = f.type
    /\ Range(f.prev.localips) = Range(f.localips) /\ f.prev.mac = f.mac

\* No chain holds two equal rules.
NoDuplicateRules(w) ==
    \A tk \in DOMAIN w.tables : \A c \in DOMAIN w.tables[tk] :
        \A i, j \in 1..Len(w.tables[tk][c]) :
            i # j => w.tables[tk][c][i] # w.tables[tk][c][j]

\* C1: a compile run again with the same arguments directly after a
\* completed one leaves every chain (the to-chain, the from-chain, the INPUT
\* and FORWARD dispatch chains) and every ipset as the first run left them,
\* and no chain holds two content-equivalent rules.
C1_CompileIdempotent ==
    \A f \in Frames : Rerun(f) => (World = f.before /\ NoDuplicateRules(World))

\* A second run over two addresses, visited in the other order, has ended.
C1_Witness ==
    \E f \in Frames :
        Rerun(f) /\ Len(f.localips) = 2 /\ f.prev.localips # f.localips

FromChain(w, f) == ChainRules(w, FilterTable(f), from_chain_name(f.id))
ToChain(w, f) == ChainRules(w, FilterTable(f), to_chain_name(f.id))

\* The unconditional DROP is in the chain, once, as its last rule.
DropIsLast(rules, type) ==
    /\ Len(rules) > 0
    /\ \A i \in 1..Len(rules) : (rules[i] = DropRule(type)) <=> (i = Len(rules))

\* C2: after every completed compile of a sequence of serialized compiles
\* whose local IP set and MAC change from call to call, the unconditional
\* DROP is the last rule of the to-chain and of the from-chain: no MAC-allow
\* rule stands after it.
C2_DropIsLast ==
    \A f \in Frames :
        CompileDone(f) =>
            /\ DropIsLast(ToChain(World, f), f.type)
            /\ DropIsLast(FromChain(World, f), f.type)

\* A compile over two addresses has ended that followed a completed compile
\* of the same endpoint over one other address set: a MAC rule was inserted
\* into a chain that already ended with the DROP.
C2_Witness ==
    \E f \in Frames :
        /\ CompileDone(f) /\ Len(f.localips) = 2
        /\ f.prev.op = "compile" /\ f.prev.status = "done"
        /\ Len(f.prev.localips) = 1
        /\ is_chain(f.before, FilterTable(f), from_chain_name(f.id))
        /\ DropRule(f.type) \in Range(FromChain(f.before, f))

\* A MAC-match RETURN rule.
IsMacRule(rule) ==
    rule.target = "RETURN" /\ Len(rule.matches) = 1 /\ rule.matches[1].name = "mac"

MacPositions(rules) == {i \in 1..Len(rules) : IsMacRule(rules[i])}

\* C3: after a completed compile with local IP set L and MAC M, whatever the
\* earlier compiles used, the MAC-match RETURN rules of the from-chain are
\* exactly one rule (ip, M) for each ip in L.
C3_MacRulesReconciled ==
    \A f \in Frames :
        CompileDone(f) =>
            LET rules == FromChain(World, f) IN
            /\ {<<rules[i].src, rules[i].matches[1].a>> : i \in MacPositions(rules)}
                 = {<<ip, f.mac>> : ip \in Range(f.localips)}
            /\ Cardinality(MacPositions(rules)) = Len(f.localips)

\* A compile has ended that found a rule of another MAC and a rule of an
\* address it no longer has, and that has an address itself.
C3_Witness ==
    \E f \in Frames :
        /\ CompileDone(f) /\ Len(f.localips) > 0
        /\ is_chain(f.before, FilterTable(f), from_chain_name(f.id))
        /\ LET old == FromChain(f.before, f) IN
           /\ \E i \in MacPositions(old) : old[i].matches[1].a # f.mac
           /\ \E i \in MacPositions(old) : old[i].src \notin Range(f.localips)

\* The members the valid rules of a list encode for the port set (port = TRUE)
\* or for the addr set (port = FALSE).
Encoded(list, port) ==
    {MemberValue(r) : r \in {x \in Range(list) : ~InvalidRule(x) /\ ToPortSet(x) = port}}

\* The four permanent ipsets of a synchronize call, each with the members
\* its rule list encodes.
Published(f) ==
    {<<to_ipset_port(f.type, f.id), Encoded(f.inbound, TRUE)>>,
     <<to_ipset_addr(f.type, f.id), Encoded(f.inbound, FALSE)>>,
     <<from_ipset_port(f.type, f.id), Encoded(f.outbound, TRUE)>>,
     <<from_ipset_addr(f.type, f.id), Encoded(f.outbound, FALSE)>>}

\* C4: at every point of a synchronize call, and when it has ended, each
\* permanent ipset of the endpoint holds either exactly the members it had
\* when the call began or exactly the members encoded from the new list.
C4_AtomicPublication ==
    \A f \in Frames : f.op = "acls" =>
        \A p \in Published(f) :
            p[1] \in DOMAIN ipsets /\ p[1] \in DOMAIN f.before.ipsets =>
                ipsets[p[1]].members \in {f.before.ipsets[p[1]].members, p[2]}

\* The inbound pair has just been swapped in: the to-port set had members
\* and now holds other ones, none of the old.
C4_Witness ==
    \E f \in Frames :
        /\ f.op = "acls" /\ f.pc = "flush" /\ f.dir = 1
        /\ to_ipset_port(f.type, f.id) \in DOMAIN f.before.ipsets
        /\ LET old == f.before.ipsets[to_ipset_port(f.type, f.id)].members
               new == ipsets[to_ipset_port(f.type, f.id)].members
           IN  old # {} /\ new # {} /\ old \cap new = {}

\* C5: a compile that was interrupted and made again with the same
\* arguments ends in the state an uninterrupted compile reaches from the
\* state the interrupted one started in.
C5_RetryConverges ==
    \A f \in Frames :
        CompileDone(f) /\ f.prev.op = "compile" /\ f.prev.status = "crashed" =>
            World = RunCompile(f.before, FirstFrame(f))

\* C6: a teardown that follows a compile from a state with nothing of the
\* endpoint leaves no chain, no dispatch rule and no ipset of it, and a
\* discovery made next does not return the endpoint.
C6_RoundTrip ==
    \A f \in Frames :
        /\ f.op = "del" /\ f.pc = "done" /\ f.tag = "roundtrip" =>
              ~HasArtifact(World, f.type, f.id)
        /\ (/\ f.op = "list" /\ f.pc = "done"
            /\ f.prev.op = "del" /\ f.prev.status = "done" /\ f.prev.tag = "roundtrip"
            /\ f.prev.type = f.type) => f.prev.id \notin f.result

\* A discovery has answered directly after such a teardown.
C6_Witness ==
    \E f \in Frames :
        /\ f.op = "list" /\ f.pc = "done"
        /\ f.prev.op = "del" /\ f.prev.status = "done" /\ f.prev.tag = "roundtrip"
        /\ f.prev.type = f.type
        /\ ~HasArtifact(World, f.type, f.prev.id)

\* C7: in every state, interrupted calls and retries included, if anything
\* of an endpoint exists in a family then its to-chain or its to-port ipset
\* exists, and discovery for the family returns the endpoint.
C7_PresenceMarkers ==
    \A id \in Endpoints, type \in Types :
        HasArtifact(World, type, id) =>
            /\ \/ is_chain(World, TableKey(type, FILTER), to_chain_name(id))
               \/ to_ipset_port(type, id) \in DOMAIN ipsets
            /\ id \in list_eps_with_rules(World, type)

\* A teardown was interrupted when the chains were gone and some of the
\* ipsets too: the to-port ipset is the only marker left.
C7_Witness ==
    \E f \in Frames :
        /\ f.op = "del" /\ f.pc = "crashed"
        /\ is_chain(f.before, FilterTable(f), to_chain_name(f.id))
        /\ from_ipset_addr(f.type, f.id) \in DOMAIN f.before.ipsets
        /\ ~is_chain(World, FilterTable(f), to_chain_name(f.id))
        /\ from_ipset_addr(f.type, f.id) \notin DOMAIN ipsets
        /\ to_ipset_port(f.type, f.id) \in DOMAIN ipsets
        /\ f.id \in list_eps_with_rules(World, f.type)

\* A rule of a dispatch chain of the table jumps to the chain.
DispatchReferenced(w, tk, name) ==
    \E i \in 1..Len(DispatchChains) :
        /\ is_chain(w, tk, DispatchChains[i])
        /\ \E j \in 1..Len(w.tables[tk][DispatchChains[i]]) :
              w.tables[tk][DispatchChains[i]][j].target = name

\* C8: when a teardown is about to delete one of the endpoint's chains no
\* rule of INPUT or FORWARD jumps to it, and when it is about to destroy
\* one of the endpoint's ipsets no rule of any chain matches on it.
C8_TeardownOrder ==
    \A f \in Frames : f.op = "del" =>
        /\ f.pc = "c_delete" =>
              ~DispatchReferenced(World, FilterTable(f), EpChains(f.id)[f.k])
        /\ (f.pc = "sets" /\ DelIpsets(f.type, f.id)[f.k] \in DOMAIN ipsets) =>
              ~IpsetReferenced(World, DelIpsets(f.type, f.id)[f.k])

\* A teardown is about to delete a chain that dispatch rules jumped to when
\* it began.
C8_Witness ==
    \E f \in Frames :
        /\ f.op = "del" /\ f.pc = "c_delete"
        /\ DispatchReferenced(f.before, FilterTable(f), EpChains(f.id)[f.k])
        /\ IpsetReferenced(World, to_ipset_port(f.type, f.id))

\* The call was given a rule without cidr, or with a port and no protocol.
HasInvalidRule(f) == \E r \in Range(f.inbound) \cup Range(f.outbound) : InvalidRule(r)

\* C9: a synchronize call whose lists hold an invalid rule, made for an
\* endpoint whose ipsets exist, does not fail, and when it has ended the
\* permanent ipsets hold the members of the valid rules and no other.
C9_MalformedSkipped ==
    \A f \in Frames :
        (/\ f.op = "acls" /\ HasInvalidRule(f)
         /\ \A p \in Published(f) : p[1] \in DOMAIN f.before.ipsets) =>
            /\ f.pc # "failed"
            /\ f.pc = "done" => \A p \in Published(f) : ipsets[p[1]].members = p[2]

\* C10: after a completed synchronize call each of the four permanent
\* ipsets holds exactly the members encoded from its own list: to-port and
\* to-addr from the inbound list, from-port and from-addr from the outbound.
C10_ExactMembership ==
    \A f \in Frames :
        f.op = "acls" /\ f.pc = "done" =>
            \A p \in Published(f) : p[1] \in DOMAIN ipsets /\ ipsets[p[1]].members = p[2]

\* A completed call with both lists non-empty has replaced members that
\* the to-port and the from-port set held before.
C10_Witness ==
    \E f \in Frames :
        /\ f.op = "acls" /\ f.pc = "done"
        /\ Len(f.inbound) > 0 /\ Len(f.outbound) > 0
        /\ to_ipset_port(f.type, f.id) \in DOMAIN f.before.ipsets
        /\ from_ipset_port(f.type, f.id) \in DOMAIN f.before.ipsets
        /\ f.before.ipsets[to_ipset_port(f.type, f.id)].members
              \ ipsets[to_ipset_port(f.type, f.id)].members # {}
        /\ f.before.ipsets[from_ipset_port(f.type, f.id)].members
              \ ipsets[from_ipset_port(f.type, f.id)].members # {}

\* N of the removal loop of a compile: the stale MAC rules the from-chain
\* held when the call began (the rules inserted before the loop are no MAC
\* rules).
StaleAtStart(f) ==
    IF is_chain(f.before, FilterTable(f), from_chain_name(f.id))
    THEN Cardinality(StalePositions(FromChain(f.before, f), Range(f.localips), f.mac))
    ELSE 0

\* N of the removal loop of a teardown over its k-th dispatch chain.
DispatchAtStart(f, k) ==
    IF is_chain(f.before, FilterTable(f), DispatchChains[k])
    THEN Cardinality(DispatchPositions(ChainRules(f.before, FilterTable(f), DispatchChains[k]),
                                       f.id))
    ELSE 0

\* Every pass but the last removes one rule, and the loop is left after
\* pass N + 1.
PassesBounded ==
    \A f \in Frames :
        /\ f.op = "compile" /\ f.pc = "stale" =>
              f.passes + Cardinality(StalePositions(FromChain(World, f), Range(f.localips),
                                                    f.mac)) = StaleAtStart(f)
        /\ f.op = "compile" /\ f.pc \in {"mac", "drop", "probe", "wire", "done"} =>
              f.passes = StaleAtStart(f) + 1
        /\ f.op = "del" /\ f.pc = "d_scan" =>
              f.passes + Cardinality(DispatchPositions(
                  ChainRules(World, FilterTable(f), DispatchChains[f.k]), f.id))
                = DispatchAtStart(f, f.k)
        /\ f.op = "del" /\ f.pc = "d_chain" /\ f.k > 1 =>
              f.passes = DispatchAtStart(f, f.k - 1) + 1
        /\ f.op = "del" /\ f.pc \in {"c_flush", "c_delete", "sets", "done"} =>
              f.passes = DispatchAtStart(f, Len(DispatchChains)) + 1

InLoop(c) == call[c].pc \in {"stale", "d_scan"}

\* C11: the removal loop of a compile and the removal loop of a teardown
\* each end, after exactly N + 1 passes for N rules to remove: N passes
\* that remove one rule each and a last one that removes nothing.
C11_FixedPoint ==
    /\ []PassesBounded
    /\ \A c \in Callers : InLoop(c) ~> ~InLoop(c)

\* A compile has left its loop after three passes, two of which removed a
\* rule.
C11_Witness ==
    \E f \in Frames :
        /\ f.op = "compile" /\ f.pc = "mac" /\ f.passes = 3
        /\ StaleAtStart(f) = 2

\* The teardown is past its step (a), the removal of the dispatch rules.
PastDispatch(f) == f.op = "del" /\ f.pc \in {"c_flush", "c_delete", "sets", "done"}

\* C12: once a teardown is past the removal of the dispatch rules, no rule
\* of felix-INPUT or felix-FORWARD has the to-chain or the from-chain of
\* its endpoint as target, whatever the two chains held when it began.
C12_NoDispatchReference ==
    \A f \in Frames : PastDispatch(f) =>
        /\ ~DispatchReferenced(World, FilterTable(f), to_chain_name(f.id))
        /\ ~DispatchReferenced(World, FilterTable(f), from_chain_name(f.id))

\* The teardown found felix-FORWARD with a rule of the neighbour between
\* two rules of its endpoint, and has just finished with it.
C12_Witness ==
    \E f \in Frames :
        /\ f.op = "del" /\ f.pc = "c_flush" /\ f.k = 1
        /\ LET old == ChainRules(f.before, FilterTable(f), CHAIN_FORWARD) IN
           /\ Len(old) = 3
           /\ DispatchPositions(old, f.id) = {1, 3}
           /\ ChainRules(World, FilterTable(f), CHAIN_FORWARD) = <<old[2]>>

\* C13: after a completed compile of an endpoint, whatever completed
\* compiles and teardowns of it or of other endpoints came before,
\* felix-INPUT holds the rule sending its device to its from-chain and
\* felix-FORWARD holds the rule sending its device to its from-chain and
\* a rule sending what leaves by its device to its to-chain.
C13_WiringEnsured ==
    \A f \in Frames : CompileDone(f) =>
        /\ is_chain(World, FilterTable(f), CHAIN_INPUT)
        /\ is_chain(World, FilterTable(f), CHAIN_FORWARD)
        /\ PhysdevInRule(f.type, from_chain_name(f.id), f.iface)
              \in Range(ChainRules(World, FilterTable(f), CHAIN_INPUT))
        /\ PhysdevInRule(f.type, from_chain_name(f.id), f.iface)
              \in Range(ChainRules(World, FilterTable(f), CHAIN_FORWARD))
        /\ \/ PhysdevOutRule(f.type, to_chain_name(f.id), f.iface)
                \in Range(ChainRules(World, FilterTable(f), CHAIN_FORWARD))
           \/ OutInterfaceRule(f.type, to_chain_name(f.id), f.iface)
                \in Range(ChainRules(World, FilterTable(f), CHAIN_FORWARD))

\* C16: discovery for a family returns an endpoint if and only if its
\* to-chain exists in the filter table of that family or its to-port
\* ipset of that family exists; what exists of it in the other family
\* only does not make discovery return it.
C16_DiscoveryScoped ==
    \A f \in Frames : f.op = "list" /\ f.pc = "done" =>
        f.result = {id \in Several :
                      \/ is_chain(World, TableKey(f.type, FILTER), to_chain_name(id))
                      \/ to_ipset_port(f.type, id) \in DOMAIN ipsets}

\* A rule written out: target, protocol, source and matches.
Written(type, target, protocol, src, matches) ==
    [family |-> type, target |-> target, protocol |-> protocol, src |-> src,
     out_interface |-> "", matches |-> matches]

\* The to-chain as the order of section 4.2 has it.
WrittenTo(f) ==
    (IF f.type = IPV6
     THEN <<Written(IPV6, "RETURN", "icmpv6", "", <<Match("icmp6", "130", "")>>),
            Written(IPV6, "RETURN", "icmpv6", "", <<Match("icmp6", "131", "")>>),
            Written(IPV6, "RETURN", "icmpv6", "", <<Match("icmp6", "132", "")>>),
            Written(IPV6, "RETURN", "icmpv6", "", <<Match("icmp6", "134", "")>>),
            Written(IPV6, "RETURN", "icmpv6", "", <<Match("icmp6", "135", "")>>),
            Written(IPV6, "RETURN", "icmpv6", "", <<Match("icmp6", "136", "")>>)>>
     ELSE <<>>)
    \o <<Written(f.type, "DROP", "", "", <<Match("conntrack", "INVALID", "")>>),
         Written(f.type, "RETURN", "", "", <<Match("conntrack", "RELATED,ESTABLISHED", "")>>),
         Written(f.type, "RETURN", "", "", <<Match("set", to_ipset_port(f.type, f.id), "src")>>),
         Written(f.type, "RETURN", "", "", <<Match("set", to_ipset_addr(f.type, f.id), "src")>>),
         Written(f.type, "DROP", "", "", <<>>)>>

\* The from-chain as the order of section 4.2 has it, the MAC rules in the
\* order of localips.
WrittenFrom(f) ==
    (IF f.type = IPV6 THEN <<Written(IPV6, "RETURN", "icmpv6", "", <<>>)>> ELSE <<>>)
    \o <<Written(f.type, "DROP", "", "", <<Match("conntrack", "INVALID", "")>>),
         Written(f.type, "RETURN", "", "", <<Match("conntrack", "RELATED,ESTABLISHED", "")>>)>>
    \o (IF f.type = IPV4 THEN <<Written(IPV4, "DROP", "udp", "", <<Match("udp", "67", "68")>>)>>
        ELSE <<>>)
    \o <<Written(f.type, "DROP", "", "", <<Match("set", from_ipset_port(f.type, f.id), "dst")>>),
         Written(f.type, "DROP", "", "", <<Match("set", from_ipset_addr(f.type, f.id), "dst")>>)>>
    \o [i \in 1..Len(f.localips) |->
            Written(f.type, "RETURN", "", f.localips[i], <<Match("mac", f.mac, "")>>)]
    \o <<Written(f.type, "DROP", "", "", <<>>)>>

\* C17: a compile of an endpoint of which nothing existed leaves the
\* to-chain and the from-chain with exactly the rules of the fixed order,
\* in that order, for IPv4 and for IPv6.
C17_ExactOrder ==
    \A f \in Frames : CompileDone(f) /\ f.tag = "clean" =>
        /\ ToChain(World, f) = WrittenTo(f)
        /\ FromChain(World, f) = WrittenFrom(f)

\* Such a compile has ended, for IPv6 with two addresses.
C17_Witness ==
    \E f \in Frames :
        /\ CompileDone(f) /\ f.tag = "clean"
        /\ f.type = IPV6 /\ Len(f.localips) = 2
        /\ Len(FromChain(World, f)) = 8

\* The same for IPv4: the DHCP rule is third of the from-chain.
C17_WitnessV4 ==
    \E f \in Frames :
        /\ CompileDone(f) /\ f.tag = "clean"
        /\ f.type = IPV4 /\ Len(f.localips) = 2
        /\ FromChain(World, f)[3].protocol = "udp"

\* How often the rule occurs in the chain.
Count(rules, rule) == Cardinality({i \in 1..Len(rules) : rules[i] = rule})

\* The rules of a chain that jump to the given chain.
Jumps(rules, name) == {i \in 1..Len(rules) : rules[i].target = name}

\* What set_global_rules is to leave: felix-PREROUTING with the one DNAT
\* rule, felix-INPUT and felix-FORWARD in both filter tables, and one jump
\* into each of them from the built-in chain.
GlobalInstalled(w) ==
    /\ is_chain(w, TableKey(IPV4, NAT), CHAIN_PREROUTING)
    /\ ChainRules(w, TableKey(IPV4, NAT), CHAIN_PREROUTING) = <<DnatRule>>
    /\ Cardinality(Jumps(ChainRules(w, TableKey(IPV4, NAT), "PREROUTING"),
                         CHAIN_PREROUTING)) = 1
    /\ \A type \in Types :
          /\ is_chain(w, TableKey(type, FILTER), CHAIN_INPUT)
          /\ is_chain(w, TableKey(type, FILTER), CHAIN_FORWARD)
          /\ Cardinality(Jumps(ChainRules(w, TableKey(type, FILTER), "INPUT"),
                               CHAIN_INPUT)) = 1
          /\ Cardinality(Jumps(ChainRules(w, TableKey(type, FILTER), "FORWARD"),
                               CHAIN_FORWARD)) = 1

GlobalDone(f) == f.op = "global" /\ f.pc = "done"

\* C14: after every completed run of set_global_rules, the first and any
\* later one, the redirect chain holds the one DNAT rule, the dispatch
\* chains exist in both filter tables and each built-in chain holds one
\* jump into its dispatch chain; a run that directly follows a completed
\* run changes nothing.
C14_GlobalInstalled ==
    \A f \in Frames : GlobalDone(f) =>
        /\ GlobalInstalled(World)
        /\ (f.prev.op = "global" /\ f.prev.status = "done") => World = f.before

\* A run has ended that directly followed a completed run and found the
\* rules in place.
C14_Witness ==
    \E f \in Frames :
        /\ GlobalDone(f) /\ f.rules_check = 0
        /\ f.prev.op = "global" /\ f.prev.status = "done"
        /\ GlobalInstalled(f.before)

\* C18: a run of set_global_rules that was interrupted and made again ends
\* with the jumps into the dispatch chains in place in both families and
\* in the nat table, in the state an uninterrupted run reaches.
C18_GlobalRetryConverges ==
    \A f \in Frames :
        GlobalDone(f) /\ f.prev.op = "global" /\ f.prev.status = "crashed" =>
            /\ GlobalInstalled(World)
            /\ World = RunGlobal(f.before, GlobalFrame)


\* The from-chain breaks the fixed order: the DROP is not its last rule, or
\* it holds a rule twice.
FromChainCorrupt(w, f) ==
    LET rules == FromChain(w, f) IN
        \/ ~DropIsLast(rules, f.type)
        \/ \E i, j \in 1..Len(rules) : i # j /\ rules[i] = rules[j]

BothComplete == \A f \in Frames : CompileDone(f)

\* No call is running: each caller has completed its call or not begun it.
NoneRunning == \A f \in Frames : f.op = "idle" \/ CompileDone(f)

\* C15: two compile calls of one endpoint and family that nothing
\* serializes can leave the from-chain corrupt with both calls complete (the
\* DROP not last, or a rule twice), and nothing but their overlap does it:
\* whenever no call is running and none has started inside the other, the
\* from-chain is in order.
C15_OverlapCorrupts ==
    (NoneRunning /\ \E f \in Frames : CompileDone(f) /\ FromChainCorrupt(World, f))
        => \E f \in Frames : f.tag = "overlap"

\* Both calls are complete and the from-chain is corrupt.
C15_Witness ==
    /\ BothComplete
    /\ \E f \in Frames : f.tag = "overlap"
    /\ \E f \in Frames : FromChainCorrupt(World, f)

\* A synchronize call that was interrupted and made again.
AclsRetried(f) == f.op = "acls" /\ f.prev.op = "acls" /\ f.prev.status = "crashed"

\* The scratch sets of the family are empty.
ScratchEmpty(w, type) ==
    \A i \in 1..Len(TmpIpsets(type)) : w.ipsets[TmpIpsets(type)[i][1]].members = {}

\* C19: a synchronize call that was interrupted after any of its commands
\* and made again with the same lists ends in the state an uninterrupted
\* call reaches from the state the interrupted one started in; when it
\* completes, the four permanent ipsets hold exactly the members encoded
\* from their own lists and both scratch sets are empty.
C19_AclsRetryConverges ==
    \A f \in Frames :
        AclsRetried(f) /\ f.pc \in {"done", "failed"} =>
            /\ World = RunAcls(f.before, FirstFrame(f))
            /\ f.pc = "done" =>
                /\ \A p \in Published(f) : ipsets[p[1]].members = p[2]
                /\ ScratchEmpty(World, f.type)

\* A retried call with members for both directions has completed, and has
\* replaced members the to-port set held before.
C19_Witness ==
    \E f \in Frames :
        /\ AclsRetried(f) /\ f.pc = "done"
        /\ Encoded(f.inbound, TRUE) # {} /\ Encoded(f.outbound, TRUE) # {}
        /\ Encoded(f.inbound, TRUE) # Encoded(f.outbound, TRUE)
        /\ f.before.ipsets[to_ipset_port(f.type, f.id)].members
              \ ipsets[to_ipset_port(f.type, f.id)].members # {}

\* The (addr, port) pairs of ipsets of a synchronize call, each with the
\* list it is published from.
AclPairs(f) ==
    {<<to_ipset_addr(f.type, f.id), to_ipset_port(f.type, f.id), f.inbound>>,
     <<from_ipset_addr(f.type, f.id), from_ipset_port(f.type, f.id), f.outbound>>}

\* C20: at every point of a synchronize call the addr set and the port set
\* of one direction, taken together, hold either the members both held when
\* the call began or the members encoded from the new list of the
\* direction: never the new members in one and the old ones in the other.
C20_NoPairMixing ==
    \A f \in Frames : f.op = "acls" =>
        \A p \in AclPairs(f) :
            p[1] \in DOMAIN f.before.ipsets /\ p[2] \in DOMAIN f.before.ipsets =>
                <<ipsets[p[1]].members, ipsets[p[2]].members>> \in
                    {<<f.before.ipsets[p[1]].members, f.before.ipsets[p[2]].members>>,
                     <<Encoded(p[3], FALSE), Encoded(p[3], TRUE)>>}

\* The positions of a rule in a chain.
PositionsOf(rules, rule) == {i \in 1..Len(rules) : rules[i] = rule}

\* Every INVALID-state DROP of the chain stands before every
\* RELATED,ESTABLISHED RETURN.
InvalidFirst(rules, type) ==
    \A i \in PositionsOf(rules, ConntrackRule(type, "DROP", "INVALID")) :
        \A j \in PositionsOf(rules, ConntrackRule(type, "RETURN", "RELATED,ESTABLISHED")) :
            i < j

\* The to-chains and from-chains of a filter table.
EndpointChains(w, type) ==
    {c \in DOMAIN w.tables[TableKey(type, FILTER)] :
        StartsWith(c, CHAIN_TO_PREFIX) \/ StartsWith(c, CHAIN_FROM_PREFIX)}

\* C21: in every state, between any two commands of a compile or of a
\* teardown, after a call was interrupted and after it was made again, a
\* to-chain or from-chain that holds both the INVALID-state DROP and the
\* RELATED,ESTABLISHED RETURN holds the DROP at the lower position.
C21_InvalidBeforeEstablished ==
    \A type \in Types : \A c \in EndpointChains(World, type) :
        InvalidFirst(ChainRules(World, TableKey(type, FILTER), c), type)

\* A compile that was interrupted and made again has ended; both chains
\* hold the two rules, and the from-chain did not hold the second when the
\* interrupted call began.
C21_Witness ==
    \E f \in Frames :
        /\ CompileDone(f) /\ f.prev.op = "compile" /\ f.prev.status = "crashed"
        /\ \A rules \in {FromChain(World, f), ToChain(World, f)} :
              /\ PositionsOf(rules, ConntrackRule(f.type, "DROP", "INVALID")) # {}
              /\ PositionsOf(rules, ConntrackRule(f.type, "RETURN", "RELATED,ESTABLISHED")) # {}
        /\ \/ ~is_chain(f.before, FilterTable(f), from_chain_name(f.id))
           \/ PositionsOf(FromChain(f.before, f),
                          ConntrackRule(f.type, "RETURN", "RELATED,ESTABLISHED")) = {}

\* The rules of a dispatch chain that send to the chains of the call's
\* endpoint, in their order; none if the dispatch chain does not exist.
DispatchOf(w, f, chain) ==
    LET mine(r) == r.target \in {to_chain_name(f.id), from_chain_name(f.id)} IN
    IF is_chain(w, FilterTable(f), chain)
    THEN SelectSeq(ChainRules(w, FilterTable(f), chain), mine)
    ELSE <<>>

\* Neither dispatch chain sent to the endpoint's chains when the call began.
UnwiredBefore(f) ==
    \A k \in 1..Len(DispatchChains) : DispatchOf(f.before, f, DispatchChains[k]) = <<>>

BareCidr(v) == ~Contains(v, ",") /\ ~Contains(v, ":")

\* A member of the shape `cidr,protocol:port` (`cidr,protocol:0` included).
PortKeyed(v) ==
    \E i, j \in 1..Len(v) :
        /\ 1 < i /\ i + 1 < j /\ j < Len(v)
        /\ SubSeq(v, i, i) = "," /\ SubSeq(v, j, j) = ":"
        /\ BareCidr(SubSeq(v, 1, i - 1))
        /\ BareCidr(SubSeq(v, i + 1, j - 1))
        /\ BareCidr(SubSeq(v, j + 1, Len(v)))

\* The permanent and scratch sets that are addr sets by their names, and
\* those that are port sets.
AddrSetNames ==
    {tmp_ipset_addr(t) : t \in Types}
    \cup {to_ipset_addr(ep[2], ep[1]) : ep \in managed}
    \cup {from_ipset_addr(ep[2], ep[1]) : ep \in managed}

PortSetNames ==
    {tmp_ipset_port(t) : t \in Types}
    \cup {to_ipset_port(ep[2], ep[1]) : ep \in managed}
    \cup {from_ipset_port(ep[2], ep[1]) : ep \in managed}

\* C23: in every state reached by compiles, synchronizations with any rule
\* lists and teardowns, every ipset is an addr set or a port set, an addr
\* set is of type hash:net and holds bare cidrs only, and a port set is of
\* type hash:net,port and holds members cidr,protocol:port only; no swap
\* has carried the members of one kind into a set of the other.
C23_ShapesNotMixed ==
    \A n \in DOMAIN ipsets :
        \/ /\ n \in AddrSetNames
           /\ ipsets[n].typename = "hash:net"
           /\ \A v \in ipsets[n].members : BareCidr(v)
        \/ /\ n \in PortSetNames
           /\ ipsets[n].typename = "hash:net,port"
           /\ \A v \in ipsets[n].members : PortKeyed(v)

\* A call with rules of both shapes has published: an addr set and a port
\* set of the endpoint hold members at once.
C23_Witness ==
    \E f \in Frames :
        /\ f.op = "acls" /\ f.pc = "done"
        /\ \E a \in AddrSetNames \cap DOMAIN ipsets : ipsets[a].members # {}
        /\ \E p \in PortSetNames \cap DOMAIN ipsets : ipsets[p].members # {}

\* C24: at every point of a compile of (E, F), and when it has ended, every
\* ipset that existed when the call began, permanent or scratch, exists
\* with the type and the members it had, and every ipset that did not is
\* one of E's four sets for F, of the type of its name and empty.
C24_CompileKeepsSets ==
    \A f \in Frames : f.op = "compile" =>
        /\ \A n \in DOMAIN f.before.ipsets :
              n \in DOMAIN ipsets /\ ipsets[n] = f.before.ipsets[n]
        /\ \A n \in DOMAIN ipsets \ DOMAIN f.before.ipsets :
              \E i \in 1..Len(EpIpsets(f.type, f.id)) :
                  /\ n = EpIpsets(f.type, f.id)[i][1]
                  /\ ipsets[n] = [typename |-> EpIpsets(f.type, f.id)[i][2],
                                  family |-> family(f.type), members |-> {}]

\* A compile has ended for an endpoint whose to-port and from-addr sets
\* held the members of an earlier synchronization when it began.
C24_Witness ==
    \E f \in Frames :
        /\ CompileDone(f)
        /\ to_ipset_port(f.type, f.id) \in DOMAIN f.before.ipsets
        /\ from_ipset_addr(f.type, f.id) \in DOMAIN f.before.ipsets
        /\ f.before.ipsets[to_ipset_port(f.type, f.id)].members # {}
        /\ f.before.ipsets[from_ipset_addr(f.type, f.id)].members # {}

\* No swap of the call has been made yet.
NoSwapYet(f) ==
    /\ f.dir \in {0, 1}
    /\ \/ f.pc \in {"tmp_create", "tmp_flush", "add"}
       \/ f.pc = "swap" /\ f.k = 1

\* The permanent sets of the call that existed when it began have the
\* members they had then.
PermanentAsBefore(f) ==
    \A p \in Published(f) :
        p[1] \in DOMAIN f.before.ipsets =>
            /\ p[1] \in DOMAIN ipsets
            /\ ipsets[p[1]].members = f.before.ipsets[p[1]].members

\* What one step does to a synchronize call f of caller c.
AclsAborts(c) ==
    LET f == call[c]
        g == call'[c]
        permanent == IF f.k = 1 THEN AclAddr(f) ELSE AclPort(f)
    IN  f.op = "acls" =>
            /\ f.pc = "failed" => tables' = tables /\ ipsets' = ipsets
            /\ (f.pc # "failed" /\ g.op = "acls" /\ g.pc = "failed") =>
                  /\ tables' = tables /\ ipsets' = ipsets
                  /\ NoSwapYet(f) => PermanentAsBefore(f)
            /\ (f.pc = "swap" /\ permanent \notin DOMAIN ipsets /\ g # f) => g.pc = "failed"

\* C25: a synchronize call ends in failure at the command that fails: a
\* swap that names a permanent set that does not exist fails the call, the
\* failing command changes nothing, no command of the call runs after it,
\* and when no swap was made before it every permanent set has the members
\* it had when the call began.
C25_FailureAborts == [][\A c \in DOMAIN call : AclsAborts(c)]_vars

\* A call with valid rules, made after the teardown of its endpoint, has
\* failed at its first swap: the permanent sets do not exist and a scratch
\* set holds what the call staged.
C25_Witness ==
    \E f \in Frames :
        /\ f.op = "acls" /\ f.pc = "failed" /\ ~HasInvalidRule(f)
        /\ f.prev.op = "del" /\ f.prev.status = "done"
        /\ f.dir = 1 /\ f.k = 1
        /\ to_ipset_addr(f.type, f.id) \notin DOMAIN ipsets
        /\ \E i \in 1..Len(TmpIpsets(f.type)) : ipsets[TmpIpsets(f.type)[i][1]].members # {}

\* C26: when the synchronizations of two endpoints of one family, made at
\* once, have both ended, the four permanent ipsets of each endpoint hold
\* exactly the members encoded from the lists of that endpoint's call.
C26_NoLeakBetweenEndpoints ==
    (\A f \in Frames : f.op = "acls" /\ f.pc = "done") =>
        \A f \in Frames : \A p \in Published(f) :
            p[1] \in DOMAIN ipsets /\ ipsets[p[1]].members = p[2]

\* The rules of a chain that do not send to the chains of the call's endpoint.
NotOf(rules, f) ==
    LET other(r) == r.target \notin {to_chain_name(f.id), from_chain_name(f.id)} IN
    SelectSeq(rules, other)

\* C27: at every point of a teardown of (E, F), and when it has ended:
\* every chain of the other family's table, and every chain of F's table
\* but E's two chains and the two dispatch chains, is as it was when the
\* call began; every ipset but E's four sets for F is as it was; the call
\* has made no chain but the dispatch chains and no ipset; and each dispatch
\* chain holds the rules it held that do not target E's to-chain or
\* from-chain, in their order, with at most rules that do target them, and
\* none of those when the call has ended.
C27_TeardownFrame ==
    \A f \in Frames : f.op = "del" =>
        /\ \A tk \in DOMAIN f.before.tables : \A c \in DOMAIN f.before.tables[tk] :
              (tk # FilterTable(f) \/ c \notin Range(EpChains(f.id)) \cup Range(DispatchChains))
                  => c \in DOMAIN tables[tk] /\ tables[tk][c] = f.before.tables[tk][c]
        /\ \A tk \in DOMAIN tables :
              DOMAIN tables[tk] \subseteq
                  DOMAIN f.before.tables[tk]
                      \cup (IF tk = FilterTable(f) THEN Range(DispatchChains) ELSE {})
        /\ \A n \in DOMAIN f.before.ipsets \ Range(DelIpsets(f.type, f.id)) :
              n \in DOMAIN ipsets /\ ipsets[n] = f.before.ipsets[n]
        /\ DOMAIN ipsets \subseteq DOMAIN f.before.ipsets
        /\ \A k \in 1..Len(DispatchChains) :
              is_chain(f.before, FilterTable(f), DispatchChains[k]) =>
                  LET old == ChainRules(f.before, FilterTable(f), DispatchChains[k])
                      new == ChainRules(World, FilterTable(f), DispatchChains[k])
                  IN  /\ NotOf(new, f) = NotOf(old, f)
                      /\ Len(new) <= Len(old)
                      /\ f.pc = "done" => new = NotOf(old, f)

\* A teardown of e1 in one family has ended; e1 was compiled in the other
\* family too, and felix-FORWARD held the rules of e1 before those of e12,
\* whose chain names begin with e1's.
C27_Witness ==
    \E f \in Frames :
        /\ f.op = "del" /\ f.pc = "done" /\ f.id = "e1"
        /\ \E t \in Types \ {f.type} :
              /\ is_chain(World, TableKey(t, FILTER), to_chain_name(f.id))
              /\ to_ipset_port(t, f.id) \in DOMAIN ipsets
        /\ is_chain(f.before, FilterTable(f), CHAIN_FORWARD)
        /\ Len(ChainRules(f.before, FilterTable(f), CHAIN_FORWARD)) = 6
        /\ Len(ChainRules(World, FilterTable(f), CHAIN_FORWARD)) = 3
        /\ to_ipset_port(f.type, "e12") \in DOMAIN ipsets

\* The rule the compile is about to hand to insert_rule with its counter as
\* the position, and the chain it is for.
NextInsert(w, f) ==
    CASE f.pc = "to_rules" ->
            [rule |-> ToRules(f.type, f.id)[f.k], chain |-> ToChain(w, f)]
      [] f.pc = "from_rules" ->
            [rule |-> FromRules(f.type, f.id)[f.k], chain |-> FromChain(w, f)]
      [] f.pc = "mac" ->
            [rule |-> MacRule(f.type, f.localips[f.k], f.mac), chain |-> FromChain(w, f)]

\* C28: in every compile, whatever earlier compiles, completed or
\* interrupted, left in the chains, each insert_rule(rule, chain, index) is
\* called with 0 <= index <= the length of the chain, whether the rule is
\* in the chain already or not, and no compile fails.
C28_PositionsInRange ==
    \A f \in Frames : f.op = "compile" =>
        /\ f.pc # "failed"
        /\ f.pc \in {"to_rules", "from_rules", "mac"} =>
              0 <= f.index /\ f.index <= Len(NextInsert(World, f).chain)

\* A compile that was interrupted is made again and is about to call
\* insert_rule for a rule that the chain holds already, with a counter that
\* was advanced for rules found present.
C28_Witness ==
    \E f \in Frames :
        /\ f.op = "compile" /\ f.pc \in {"from_rules", "mac"}
        /\ f.prev.op = "compile" /\ f.prev.status = "crashed"
        /\ f.index > 1
        /\ NextInsert(World, f).rule \in Range(NextInsert(World, f).chain)
        /\ f.index < Len(NextInsert(World, f).chain)

=============================================================================
